---- MODULE Spec2Model ----
(***************************************************************************)
(* Model of TableDependencyTracer.py: the writers index, the writer        *)
(* lookup, the recursive lineage enumeration (as an explicit call stack),  *)
(* the path-to-row shaping and the driver loop of tracer().                *)
(*                                                                         *)
(* A source file is represented by what the program's regular expressions  *)
(* find in its text: the tables of its "Output table(s)" header, the       *)
(* insertInto targets, the CREATE VIEW name, the spark.table(...) reads,   *)
(* the FROM/JOIN reads, and the names that occur in it at word boundaries. *)
(* Every file of the corpus is readable (read_text never returns None).    *)
(***************************************************************************)
EXTENDS Integers, Sequences, FiniteSets, TLC

(***************************************************************************)
(* Table names                                                             *)
(***************************************************************************)

\* The canonical (lower-cased, qualified) names of the corpus, in the order
\* Python's sorted() gives them.
SortedNames == <<"s.a", "s.b", "s.c", "s.d">>

QNames == {SortedNames[i] : i \in 1..Len(SortedNames)}

\* Names as they are written in --targets and in file texts: canonical ones,
\* mixed-case ones, bare ones.
RawNames == QNames \cup {"S.A", "S.C", "S.D", "d", "zz", "CODEDECODEACTIVITY"}

\* str.lower()
lower(n) ==
    CASE n = "S.A" -> "s.a"
      [] n = "M" -> "m"
      [] n = "S.C" -> "s.c"
      [] n = "S.D" -> "s.d"
      [] n = "CODEDECODEACTIVITY" -> "codedecodeactivity"
      [] OTHER -> n

\* "." in name
has_dot(n) == lower(n) \in QNames

\* key.endswith("." + bare) for a key of the writers index
ends_with_dot(k, bare) ==
    \/ k = "s.a" /\ bare = "a"
    \/ k = "s.b" /\ bare = "b"
    \/ k = "s.c" /\ bare = "c"
    \/ k = "s.d" /\ bare = "d"

\* sorted(S) for a set S of canonical names
sorted(S) == SelectSeq(SortedNames, LAMBDA n : n \in S)

Range(s) == {s[i] : i \in 1..Len(s)}

NoneVal == "None"

(***************************************************************************)
(* The corpus                                                              *)
(***************************************************************************)

File(path, ext, header, ins, view, spark, fj, words) ==
    [path |-> path, ext |-> ext, header_outs |-> header, insertinto |-> ins,
     view_name |-> view, spark_tables |-> spark, from_join |-> fj,
     mentions |-> words]

\* The files a corpus is drawn from; the names are spelt as the text spells them.
\*  etl_a.py   writes s.a (header, spelt S.A), reads s.b
\*  etl_b.py   writes s.b (header), reads s.c (spelt S.C)
\*  etl_d.py   writes s.d (header), reads s.b and s.c; an embedded SQL string
\*             mentions "from s.a", which is no upstream of a spark writer
\*  ins_b.py   writes s.b (insertInto only), reads s.a
\*  v_c.sql    CREATE VIEW s.c ... FROM s.a
\*  etl_c.py   writes s.c (header), reads s.c itself and s.d
\*  load_a.py  writes s.a (header), reads nothing
\*  old_d.py   header names s.d with a zero-width space inside, so the header
\*             parser yields s.d but the text does not contain the name s.d
\*             (the bare name d stands in it as a word); reads s.a
\*  mk_c.py    a .py file whose text holds "create view s.c ... from s.b"
FileShapes ==
    << File("etl_a.py", ".py", {"S.A"}, {}, NoneVal, {"s.b"}, {}, {"S.A", "s.b"}),
       File("etl_b.py", ".py", {"s.b"}, {}, NoneVal, {"S.C"}, {}, {"s.b", "S.C"}),
       File("etl_d.py", ".py", {"s.d"}, {}, NoneVal, {"s.b", "s.c"}, {"s.a"},
            {"s.a", "s.b", "s.c", "s.d"}),
       File("ins_b.py", ".py", {}, {"s.b"}, NoneVal, {"s.a"}, {}, {"s.a", "s.b"}),
       File("v_c.sql", ".sql", {}, {}, "s.c", {}, {"s.a"}, {"s.a", "s.c"}),
       File("etl_c.py", ".py", {"s.c"}, {}, NoneVal, {"s.c", "s.d"}, {}, {"s.c", "s.d"}),
       File("load_a.py", ".py", {"s.a"}, {}, NoneVal, {}, {}, {"s.a"}),
       File("old_d.py", ".py", {"s.d"}, {}, NoneVal, {"s.a"}, {}, {"s.a", "d"}),
       File("mk_c.py", ".py", {}, {}, "s.c", {}, {"s.b"}, {"s.b", "s.c"}) >>

MaxFiles == 3

\* At most MaxFiles distinct files, listed in any order (os.walk fixes none).
Corpora ==
    UNION { {fs \in [1..n -> Range(FileShapes)] :
                \A i, j \in 1..n : i # j => fs[i] # fs[j]} : n \in 0..MaxFiles }

(***************************************************************************)
(* Indexing and writer lookup                                              *)
(***************************************************************************)

WriterInfo(p, k) == [file_path |-> p, kind |-> k]

\* read_text(path) on the corpus fs
read_text(fs, p) == CHOOSE f \in Range(fs) : f.path = p

\* Every header line goes through _normalize_line, which lower-cases it.
parse_output_tables_from_header(f) == {lower(n) : n \in f.header_outs}

\* RE_INSERT_INTO_L on text.lower()
parse_insertinto_targets(f) == {lower(n) : n \in f.insertinto}

\* RE_CREATE_VIEW on the text; the name found is lower-cased.
parse_view_name(f) == IF f.view_name = NoneVal THEN NoneVal ELSE lower(f.view_name)

\* What one iteration of the loop of index_writers appends under key k.
IndexEntriesOfFile(f, k) ==
    LET outs == parse_output_tables_from_header(f) \cup parse_insertinto_targets(f)
        v == parse_view_name(f)
    IN  (IF k \in outs /\ has_dot(k) THEN <<WriterInfo(f.path, "spark")>> ELSE <<>>)
        \o (IF f.ext = ".sql" /\ v # NoneVal /\ has_dot(v) /\ v = k
            THEN <<WriterInfo(f.path, "view")>> ELSE <<>>)

RECURSIVE IndexEntries(_, _)
IndexEntries(fs, k) ==
    IF fs = <<>> THEN <<>>
    ELSE IndexEntriesOfFile(Head(fs), k) \o IndexEntries(Tail(fs), k)

\* index_writers(files): the keys are the names with at least one writer.
index_writers(fs) ==
    LET keys == {k \in RawNames : IndexEntries(fs, k) # <<>>}
    IN  [k \in keys |-> IndexEntries(fs, k)]

\* RE_SPARK_TABLE_L on text.lower()
extract_upstreams_from_spark(f) == {lower(n) : n \in f.spark_tables}

\* RE_FROM_JOIN_L on text.lower()
extract_upstreams_from_view(f) == {lower(n) : n \in f.from_join}

\* Mutant: both extractors are applied whatever the writer's kind.
UpstreamsIgnoringKind(fs, w) ==
    extract_upstreams_from_spark(read_text(fs, w.file_path))
        \cup extract_upstreams_from_view(read_text(fs, w.file_path))

get_upstreams_for_writer(fs, w) ==
    IF w.kind = "spark" THEN extract_upstreams_from_spark(read_text(fs, w.file_path))
    ELSE IF w.kind = "view" THEN extract_upstreams_from_view(read_text(fs, w.file_path))
    ELSE {}

\* word_boundary_pattern_fqtn(fqtn).search(text.lower()): the text holds the
\* name between word boundaries; a bare name is also found as the table part
\* of a qualified one, the dot being a boundary.
word_boundary_pattern_fqtn(fqtn, f) ==
    \/ fqtn \in {lower(n) : n \in f.mentions}
    \/ ~has_dot(fqtn) /\ \E n \in f.mentions : ends_with_dot(lower(n), fqtn)

RECURSIVE filter_candidate_files_by_name(_, _)
filter_candidate_files_by_name(fs, fqtn) ==
    IF fs = <<>> THEN <<>>
    ELSE (IF word_boundary_pattern_fqtn(fqtn, Head(fs)) THEN <<Head(fs).path>> ELSE <<>>)
         \o filter_candidate_files_by_name(Tail(fs), fqtn)

\* Mutant: the fallback compares the table parts of the names only.
RECURSIVE DirectParseTableOnly(_, _, _)
DirectParseTableOnly(fs, cands, fqtn) ==
    IF cands = <<>> THEN <<>>
    ELSE LET f == read_text(fs, Head(cands))
             outs == parse_output_tables_from_header(f) \cup parse_insertinto_targets(f)
         IN  (IF \E o \in outs : o = fqtn \/ ends_with_dot(o, fqtn)
              THEN <<WriterInfo(f.path, "spark")>>
              ELSE IF parse_view_name(f) = fqtn THEN <<WriterInfo(f.path, "view")>>
              ELSE <<>>)
             \o DirectParseTableOnly(fs, Tail(cands), fqtn)

\* The fallback loop of find_writers_for_table over the candidate paths.
RECURSIVE DirectParse(_, _, _)
DirectParse(fs, cands, fqtn) ==
    IF cands = <<>> THEN <<>>
    ELSE LET f == read_text(fs, Head(cands))
             outs == parse_output_tables_from_header(f) \cup parse_insertinto_targets(f)
         IN  (IF fqtn \in outs THEN <<WriterInfo(f.path, "spark")>>
              ELSE IF parse_view_name(f) = fqtn THEN <<WriterInfo(f.path, "view")>>
              ELSE <<>>)
             \o DirectParse(fs, Tail(cands), fqtn)

\* list({(w.file_path, w.kind): w for w in writers}.values())
RECURSIVE Dedupe(_)
Dedupe(ws) ==
    IF ws = <<>> THEN <<>>
    ELSE LET init == Dedupe(SubSeq(ws, 1, Len(ws) - 1))
             last == ws[Len(ws)]
         IN  IF last \in Range(init) THEN init ELSE Append(init, last)

\* Mutant: global_index[fqtn] is read without the membership test, and the
\* defaultdict creates the missing key.
IndexAfterLookupInserting(fqtn, global_index) ==
    [k \in DOMAIN global_index \cup {fqtn} |->
        IF k \in DOMAIN global_index THEN global_index[k] ELSE <<>>]

\* The writers index after find_writers_for_table(fqtn): `fqtn in global_index`
\* (line 346) creates no key, and global_index[fqtn] is read only for a key
\* that is there.
IndexAfterLookup(fqtn, global_index) == global_index

\* Mutant: the registered writers are taken without the candidate test.
IndexedWritersUnfiltered(fqtn, candidates, global_index) ==
    IF fqtn \in DOMAIN global_index THEN global_index[fqtn] ELSE <<>>

\* Lines 346-349: the registered writers whose file is a candidate.
IndexedWriters(fqtn, candidates, global_index) ==
    IF fqtn \in DOMAIN global_index
    THEN SelectSeq(global_index[fqtn], LAMBDA w : w.file_path \in Range(candidates))
    ELSE <<>>

find_writers_for_table(fqtn0, all_files, global_index) ==
    LET fqtn == lower(fqtn0)
        candidates == filter_candidate_files_by_name(all_files, fqtn)
        indexed == IndexedWriters(fqtn, candidates, global_index)
        writers == IF indexed = <<>> THEN DirectParse(all_files, candidates, fqtn)
                   ELSE indexed
    IN  Dedupe(writers)

\* Mutant: only the first writer's read set is used.
FirstWriterOnly(fs, writers) ==
    IF writers = <<>> THEN {} ELSE get_upstreams_for_writer(fs, writers[1])

\* upstream_union of dfs_lineage_paths, lines 415-417
UpstreamUnion(fs, writers) ==
    UNION {get_upstreams_for_writer(fs, writers[i]) : i \in 1..Len(writers)}

(***************************************************************************)
(* Row shaping and the CSV writer                                          *)
(***************************************************************************)

\* f"Layer {i}"
LayerNames == <<"Layer 1", "Layer 2", "Layer 3", "Layer 4", "Layer 5", "Layer 6">>

LayerKey(i) == LayerNames[i]

\* Mutant: inter = p[1:], the leaf is numbered as a layer as well.
ShapeRowLeafAsLayer(target, p) ==
    [k \in {"Target Table", "Source Table"} \cup {LayerKey(i) : i \in 1..(Len(p) - 1)} |->
        IF k = "Target Table" THEN target
        ELSE IF k = "Source Table" THEN p[Len(p)]
        ELSE p[1 + (CHOOSE i \in 1..(Len(p) - 1) : LayerKey(i) = k)]]

\* inter = p[1:-1]; leaf = p[-1] (Python indices; p[i + 1] is the 0-based p[i])
ShapeRow(target, p) ==
    IF Len(p) = 1
    THEN [k \in {"Target Table", "Source Table"} |->
            IF k = "Target Table" THEN target ELSE p[1]]
    ELSE [k \in {"Target Table", "Source Table"} \cup {LayerKey(i) : i \in 1..(Len(p) - 2)} |->
            IF k = "Target Table" THEN target
            ELSE IF k = "Source Table" THEN p[Len(p)]
            ELSE p[1 + (CHOOSE i \in 1..(Len(p) - 2) : LayerKey(i) = k)]]

shape_paths_to_rows(target, ps) == [j \in 1..Len(ps) |-> ShapeRow(target, ps[j])]

\* Mutant: max_layer is taken from the first row only.
MaxLayerOfFirstRow(rows) ==
    IF rows = <<>> THEN 0
    ELSE Cardinality({i \in 1..Len(LayerNames) : LayerKey(i) \in DOMAIN rows[1]})

\* max_layer of write_csv
MaxLayer(rows) ==
    LET ns == {i \in 1..Len(LayerNames) :
                 \E j \in 1..Len(rows) : LayerKey(i) \in DOMAIN rows[j]}
    IN  IF ns = {} THEN 0 ELSE CHOOSE n \in ns : \A m \in ns : m <= n

CsvColumns(rows) ==
    <<"Target Table">> \o [i \in 1..MaxLayer(rows) |-> LayerKey(i)] \o <<"Source Table">>

\* csv.DictWriter(fieldnames=cols, extrasaction='ignore'): header line, then one
\* line per row, a missing key written as the empty string.
write_csv(rows) ==
    LET cols == CsvColumns(rows)
    IN  <<cols>> \o
        [j \in 1..Len(rows) |->
           [c \in 1..Len(cols) |->
              IF cols[c] \in DOMAIN rows[j] THEN rows[j][cols[c]] ELSE ""]]

(***************************************************************************)
(* Target resolution of tracer()                                           *)
(***************************************************************************)

\* The commented default list of tracer(), used when --targets is absent: bare
\* upper-case names.
DefaultTargets == <<"CODEDECODEACTIVITY">>

_normalize_fqtn_or_none(t) == IF has_dot(t) THEN lower(t) ELSE NoneVal

_expand_bare_table(tbl_bare, idx) ==
    sorted({k \in DOMAIN idx : ends_with_dot(k, lower(tbl_bare))})

RECURSIVE ExpandTargets(_, _)
ExpandTargets(raw, idx) ==
    IF raw = <<>> THEN <<>>
    ELSE (IF _normalize_fqtn_or_none(Head(raw)) # NoneVal
          THEN <<_normalize_fqtn_or_none(Head(raw))>>
          ELSE _expand_bare_table(Head(raw), idx))
         \o ExpandTargets(Tail(raw), idx)

\* Mutant: the targets are kept in the order given, duplicates dropped.
ResolveInRequestOrder(args_targets, idx) ==
    Dedupe(ExpandTargets(IF args_targets # <<>> THEN args_targets ELSE DefaultTargets,
                         idx))

\* fqtn_targets = sorted(set(fqtn_targets))
ResolveTargetList(args_targets, idx) ==
    LET raw == IF args_targets # <<>> THEN args_targets ELSE DefaultTargets
    IN  sorted(Range(ExpandTargets(raw, idx)))

\* The --targets lists a run is started with (<<>>: the option is absent).
TargetLists ==
    { <<"s.d", "s.b">>, <<"S.D">>, <<"d", "s.a">>, <<"s.c">>, <<"zz">>, <<>> }

(***************************************************************************)
(* State                                                                   *)
(***************************************************************************)

VARIABLES
    files,            \* list_code_files(root)
    args_targets,     \* the --targets option, split at commas
    pc,               \* position in tracer()
    writers_index,    \* index_writers(files)
    fqtn_targets,     \* the normalised, sorted target list
    tgt,              \* position of the loop over fqtn_targets
    stack,            \* the active calls of dfs_lineage_paths, outermost first
    cache_upstreams,  \* the memo of the current top-level call
    paths,            \* what the top-level call returned
    all_rows,         \* rows collected so far
    csv,              \* what write_csv wrote
    exit_status,      \* sys.exit status
    warnings,         \* tables of the "Cycle detected" warnings, in order
    calls             \* history: <<"call", t>> per top-level call of
                      \* dfs_lineage_paths, <<"writers", t>> per writer lookup,
                      \* <<"extract", t>> per upstream extraction, in order

\* State used only when several targets are resolved with one cache.
VARIABLES
    workers           \* per resolver: its target, its call stack, the union it
                      \* has computed and not yet stored, the keys it extracted,
                      \* and the paths it returned

\* State of the two programs that promote layers to targets,
\* ExpandLayerDependencies.py and LayerToTargetExpander.py.
VARIABLES
    in_rows,          \* the rows read from the input CSV
    layer_columns,    \* the Layer columns the expander is given, in order
    out_rows,         \* the rows the expander returned
    again_rows,       \* the rows it returned when applied to out_rows
    expander_pc       \* "idle"; "read", "expanded", "expanded twice";
                      \* "loaded", "promoted"; "KeyError"

\* State of SASDependencyTracer_ByCode.analyse_sas_file.
VARIABLES
    sas_text,         \* the file: %let statements and blocks, in textual order
    env,              \* the evolving macro environment
    cursor,           \* the position in sas_text behind the last block handled
    block_tables,     \* per block handled: the tables it added as read, as written
    sas_pc            \* "idle", "blocks", "done"

tracer_state == <<files, args_targets, pc, writers_index, fqtn_targets, tgt, stack,
                  cache_upstreams, paths, all_rows, csv, exit_status, warnings, calls>>

expander_state == <<in_rows, layer_columns, out_rows, again_rows, expander_pc>>

sas_state == <<sas_text, env, cursor, block_tables, sas_pc>>

\* What the resolvers that share a cache never touch.
beside_workers == <<expander_state, sas_state>>

\* What tracer() and a single call of dfs_lineage_paths never touch.
beside_tracer == <<workers, beside_workers>>

vars == <<tracer_state, workers, expander_state, sas_state>>

\* No expander runs.
ExpanderIdle ==
    /\ in_rows = <<>>
    /\ layer_columns = <<>>
    /\ out_rows = <<>>
    /\ again_rows = <<>>
    /\ expander_pc = "idle"

\* No SAS file is analysed.
SasIdle ==
    /\ sas_text = <<>>
    /\ env = <<>>
    /\ cursor = 1
    /\ block_tables = <<>>
    /\ sas_pc = "idle"

EmptyMap == [k \in {} |-> {}]

Init ==
    /\ files \in Corpora
    /\ args_targets \in TargetLists
    /\ pc = "index"
    /\ writers_index = EmptyMap
    /\ fqtn_targets = <<>>
    /\ tgt = 1
    /\ stack = <<>>
    /\ cache_upstreams = EmptyMap
    /\ paths = <<>>
    /\ all_rows = <<>>
    /\ csv = <<>>
    /\ exit_status = 0
    /\ warnings = <<>>
    /\ calls = <<>>
    /\ workers = <<>>
    /\ ExpanderIdle
    /\ SasIdle

(***************************************************************************)
(* tracer(): indexing and target resolution                                *)
(***************************************************************************)

\* tracer() lines 524-532
BuildIndex ==
    /\ pc = "index"
    /\ writers_index' = index_writers(files)
    /\ pc' = "targets"
    /\ UNCHANGED <<beside_tracer, files, args_targets, fqtn_targets, tgt, stack, cache_upstreams,
                   paths, all_rows, csv, exit_status, warnings, calls>>

\* Mutant: the list is never found empty.
NeverNoTargets(targets) == FALSE

\* Line 583: if not fqtn_targets
NoTargets(targets) == targets = <<>>

\* tracer() lines 552-582, a non-empty result
ResolveTargets ==
    /\ pc = "targets"
    /\ ~NoTargets(ResolveTargetList(args_targets, writers_index))
    /\ fqtn_targets' = ResolveTargetList(args_targets, writers_index)
    /\ pc' = "loop"
    /\ UNCHANGED <<beside_tracer, files, args_targets, writers_index, tgt, stack, cache_upstreams,
                   paths, all_rows, csv, exit_status, warnings, calls>>

\* tracer() lines 583-586: sys.exit(2)
ExitNoTargets ==
    /\ pc = "targets"
    /\ NoTargets(ResolveTargetList(args_targets, writers_index))
    /\ exit_status' = 2
    /\ pc' = "exit"
    /\ UNCHANGED <<beside_tracer, files, args_targets, writers_index, fqtn_targets, tgt, stack,
                   cache_upstreams, paths, all_rows, csv, warnings, calls>>

(***************************************************************************)
(* dfs_lineage_paths as a call stack                                       *)
(***************************************************************************)

\* The interpreter's recursion limit, scaled down: no call is made deeper than this.
MaxDepth == 6

\* Mutant: the start name is used as the caller spelt it.
NewFrameAsSpelt(start_fqtn, visited_stack) ==
    [start |-> start_fqtn, visited_stack |-> visited_stack, at |-> "enter",
     ups |-> <<>>, i |-> 1, all_paths |-> <<>>]

\* A call that has not yet run its body; line 398 lower-cases the start name.
NewFrame(start_fqtn, visited_stack) ==
    [start |-> lower(start_fqtn), visited_stack |-> visited_stack, at |-> "enter",
     ups |-> <<>>, i |-> 1, all_paths |-> <<>>]

\* Mutant: all_paths.append(sp), the caller's table is left out.
PathsWithoutStart(start_fqtn, subpaths) == subpaths

\* all_paths.append([start_fqtn] + sp) for sp in subpaths
Prepend(start_fqtn, subpaths) ==
    [j \in 1..Len(subpaths) |-> <<start_fqtn>> \o subpaths[j]]

\* Mutant: the value is returned from inside the caller's loop, which ends it.
ReturnToAbort(rest, subpaths) ==
    LET parent == rest[Len(rest)]
    IN  [rest EXCEPT ![Len(rest)] =
            [parent EXCEPT !.all_paths = @ \o [j \in 1..Len(subpaths) |->
                                                 <<parent.start>> \o subpaths[j]],
                           !.i = Len(parent.ups) + 1]]

\* The stack after the innermost call returned subpaths to its caller (rest is the
\* stack without the returning call, and is not empty).
ReturnTo(rest, subpaths) ==
    LET parent == rest[Len(rest)]
    IN  [rest EXCEPT ![Len(rest)] =
            [parent EXCEPT !.all_paths = @ \o Prepend(parent.start, subpaths),
                           !.i = @ + 1]]

\* A return statement of dfs_lineage_paths: to the caller, or to tracer().
Return(subpaths) ==
    LET rest == SubSeq(stack, 1, Len(stack) - 1)
    IN  IF rest = <<>>
        THEN /\ stack' = <<>>
             /\ paths' = subpaths
             /\ pc' = "shape"
        ELSE /\ stack' = ReturnTo(rest, subpaths)
             /\ UNCHANGED <<paths, pc>>

\* tracer() lines 590-592: the call for the next target, with no visited_stack and
\* no cache passed.
StartTarget ==
    /\ pc = "loop"
    /\ tgt <= Len(fqtn_targets)
    /\ stack' = <<NewFrame(fqtn_targets[tgt], <<>>)>>
    /\ cache_upstreams' = EmptyMap
    /\ calls' = Append(calls, <<"call", fqtn_targets[tgt]>>)
    /\ pc' = "dfs"
    /\ UNCHANGED <<beside_tracer, files, args_targets, writers_index, fqtn_targets, tgt, paths,
                   all_rows, csv, exit_status, warnings>>

\* Mutant: the guard looks at the direct caller only.
GuardParentOnly(start_fqtn, visited_stack) ==
    visited_stack # <<>> /\ start_fqtn = visited_stack[Len(visited_stack)]

\* Mutant: the guard is a visited set shared by all branches.
GuardSeenAnywhere(start_fqtn, visited_stack) ==
    start_fqtn \in Range(visited_stack) \/ start_fqtn \in DOMAIN cache_upstreams

\* The cycle guard, lines 400-403.
CycleGuard(start_fqtn, visited_stack) == start_fqtn \in Range(visited_stack)

\* Mutant: only a table without writers is a source.
IsSourceNoWriters(writers, upstream_union) == writers = <<>>

\* The terminal test, line 421.
IsSource(writers, upstream_union) == writers = <<>> \/ upstream_union = {}

\* Mutant: the upstreams are taken in the order the files list them (no sorted()).
RECURSIVE InFileOrder(_, _, _)
InFileOrder(fs, S, done) ==
    IF fs = <<>> THEN sorted(S \ done)
    ELSE LET here == (extract_upstreams_from_spark(Head(fs))
                        \cup extract_upstreams_from_view(Head(fs))) \cap (S \ done)
         IN  sorted(here) \o InFileOrder(Tail(fs), S, done \cup here)

BranchInFileOrder(upstream_union) == InFileOrder(files, upstream_union, {})

\* Mutant: the branching loop stops after its first upstream.
BranchFirstOnly(upstream_union) == SubSeq(sorted(upstream_union), 1, 1)

\* The order of the branching loop, line 427.
BranchOrder(upstream_union) == sorted(upstream_union)

\* Lines 400-403: the call is on a table of its ancestor chain.
\* Mutant: a cut branch gives no path.
CutGivesNoPath(start_fqtn) == <<>>

\* Line 403: return [[start_fqtn]]
CutPaths(start_fqtn) == << <<start_fqtn>> >>

DfsCut ==
    /\ pc = "dfs"
    /\ stack # <<>>
    /\ LET fr == stack[Len(stack)]
       IN  /\ fr.at = "enter"
           /\ CycleGuard(fr.start, fr.visited_stack)
           /\ warnings' = Append(warnings, fr.start)
           /\ Return(CutPaths(fr.start))
    /\ UNCHANGED <<beside_tracer, files, args_targets, writers_index, fqtn_targets, tgt,
                   cache_upstreams, all_rows, csv, exit_status, calls>>

\* Mutant: the memo is never consulted.
NeverCached(start_fqtn, cache) == FALSE

\* Line 412: start_fqtn in cache_upstreams
IsCached(start_fqtn, cache) == start_fqtn \in DOMAIN cache

\* Lines 405-426: writers, upstream union (memoised), terminal test.
DfsEnter ==
    /\ pc = "dfs"
    /\ stack # <<>>
    /\ LET fr == stack[Len(stack)]
           writers == find_writers_for_table(fr.start, files, writers_index)
           cached == IsCached(fr.start, cache_upstreams)
           upstream_union == IF cached THEN cache_upstreams[fr.start]
                             ELSE UpstreamUnion(files, writers)
       IN  /\ fr.at = "enter"
           /\ ~CycleGuard(fr.start, fr.visited_stack)
           /\ writers_index' = IndexAfterLookup(fr.start, writers_index)
           /\ calls' = calls \o << <<"writers", fr.start>> >>
                       \o (IF cached THEN <<>> ELSE << <<"extract", fr.start>> >>)
           /\ cache_upstreams' =
                 IF cached THEN cache_upstreams
                 ELSE [k \in DOMAIN cache_upstreams \cup {fr.start} |->
                         IF k = fr.start THEN upstream_union ELSE cache_upstreams[k]]
           /\ IF IsSource(writers, upstream_union)
              THEN Return(<< <<fr.start>> >>)
              ELSE /\ stack' = [stack EXCEPT ![Len(stack)] =
                                  [fr EXCEPT !.at = "loop",
                                             !.ups = BranchOrder(upstream_union)]]
                   /\ UNCHANGED <<paths, pc>>
    /\ UNCHANGED <<beside_tracer, files, args_targets, fqtn_targets, tgt,
                   all_rows, csv, exit_status, warnings>>

\* Lines 427-432: the recursive call for the next upstream.
DfsRecurse ==
    /\ pc = "dfs"
    /\ stack # <<>>
    /\ LET fr == stack[Len(stack)]
       IN  /\ fr.at = "loop"
           /\ fr.i <= Len(fr.ups)
           /\ Len(stack) < MaxDepth
           /\ stack' = Append(stack,
                              NewFrame(fr.ups[fr.i], fr.visited_stack \o <<fr.start>>))
    /\ UNCHANGED <<beside_tracer, files, args_targets, pc, writers_index, fqtn_targets, tgt,
                   cache_upstreams, paths, all_rows, csv, exit_status, warnings, calls>>

\* Line 435: return all_paths.
DfsReturn ==
    /\ pc = "dfs"
    /\ stack # <<>>
    /\ LET fr == stack[Len(stack)]
       IN  /\ fr.at = "loop"
           /\ fr.i > Len(fr.ups)
           /\ Return(fr.all_paths)
    /\ UNCHANGED <<beside_tracer, files, args_targets, writers_index, fqtn_targets, tgt,
                   cache_upstreams, all_rows, csv, exit_status, warnings, calls>>

(***************************************************************************)
(* tracer(): shaping and writing                                           *)
(***************************************************************************)

\* tracer() lines 593-595
ShapeRows ==
    /\ pc = "shape"
    /\ all_rows' = all_rows \o shape_paths_to_rows(fqtn_targets[tgt], paths)
    /\ tgt' = tgt + 1
    /\ pc' = "loop"
    /\ UNCHANGED <<beside_tracer, files, args_targets, writers_index, fqtn_targets, stack,
                   cache_upstreams, paths, csv, exit_status, warnings, calls>>

\* tracer() line 597
WriteCsv ==
    /\ pc = "loop"
    /\ tgt > Len(fqtn_targets)
    /\ csv' = write_csv(all_rows)
    /\ pc' = "done"
    /\ UNCHANGED <<beside_tracer, files, args_targets, writers_index, fqtn_targets, tgt, stack,
                   cache_upstreams, paths, all_rows, exit_status, warnings, calls>>

Next ==
    \/ BuildIndex
    \/ ResolveTargets
    \/ ExitNoTargets
    \/ StartTarget
    \/ DfsCut
    \/ DfsEnter
    \/ DfsRecurse
    \/ DfsReturn
    \/ ShapeRows
    \/ WriteCsv

Spec == Init /\ [][Next]_vars

\* The run is one synchronous thread: whenever a step is possible, one is taken.
FairSpec == Spec /\ WF_vars(Next)

(***************************************************************************)
(* dfs_lineage_paths called on its own                                     *)
(***************************************************************************)

\* The start names a caller other than tracer() passes, in either spelling.
StartNames == {"S.D", "s.d", "S.A", "s.a", "S.C", "s.c", "s.b", "d"}

\* v_d.sql: CREATE VIEW d ... FROM s.a, the view name without a schema; a
\* comment mentions s.d.
BareViewFile == File("v_d.sql", ".sql", {}, {}, "d", {}, {"s.a"}, {"d", "s.a", "s.d"})

\* The corpora of the direct calls: at most MaxFiles distinct files, the file
\* of the unqualified view among them or not, listed in any order.
CorporaDfs ==
    UNION { {fs \in [1..n -> Range(FileShapes) \cup {BareViewFile}] :
                \A i, j \in 1..n : i # j => fs[i] # fs[j]} : n \in 0..MaxFiles }

\* args_targets holds the one start name of the call.
InitDfs ==
    /\ files \in CorporaDfs
    /\ args_targets \in {<<n>> : n \in StartNames}
    /\ pc = "index"
    /\ writers_index = EmptyMap
    /\ fqtn_targets = <<>>
    /\ tgt = 1
    /\ stack = <<>>
    /\ cache_upstreams = EmptyMap
    /\ paths = <<>>
    /\ all_rows = <<>>
    /\ csv = <<>>
    /\ exit_status = 0
    /\ warnings = <<>>
    /\ calls = <<>>
    /\ workers = <<>>
    /\ ExpanderIdle
    /\ SasIdle

\* dfs_lineage_paths(start_fqtn, files, writers_index) with the default
\* visited_stack and cache (lines 392-395).
DirectCall ==
    /\ pc = "targets"
    /\ stack' = <<NewFrame(args_targets[1], <<>>)>>
    /\ cache_upstreams' = EmptyMap
    /\ calls' = Append(calls, <<"call", lower(args_targets[1])>>)
    /\ pc' = "dfs"
    /\ UNCHANGED <<beside_tracer, files, args_targets, writers_index, fqtn_targets, tgt, paths,
                   all_rows, csv, exit_status, warnings>>

NextDfs ==
    \/ BuildIndex
    \/ DirectCall
    \/ DfsCut
    \/ DfsEnter
    \/ DfsRecurse
    \/ DfsReturn

SpecDfs == InitDfs /\ [][NextDfs]_vars

(***************************************************************************)
(* Several targets resolved with one cache_upstreams                       *)
(***************************************************************************)

\* The targets of the resolvers that share one cache: a caller passes the same
\* dict as cache_upstreams to every top-level call of dfs_lineage_paths, and
\* runs the calls one after another or in threads.
WorkerTargets ==
    { <<"s.d", "s.b">>, <<"s.a", "s.d">>, <<"s.c", "s.c">> }

\* The directories of the runs with a shared cache hold at most this many files.
MaxSharedFiles == 1

\* The listings of these directories, in any order.
SharedCorpora == {fs \in Corpora : Len(fs) <= MaxSharedFiles}

InitShared ==
    /\ files \in SharedCorpora
    /\ args_targets \in WorkerTargets
    /\ pc = "index"
    /\ writers_index = EmptyMap
    /\ fqtn_targets = <<>>
    /\ tgt = 1
    /\ stack = <<>>
    /\ cache_upstreams = EmptyMap
    /\ paths = <<>>
    /\ all_rows = <<>>
    /\ csv = <<>>
    /\ exit_status = 0
    /\ warnings = <<>>
    /\ calls = <<>>
    /\ workers = <<>>
    /\ ExpanderIdle
    /\ SasIdle

\* The caller makes the dict that every call is given as cache_upstreams; no
\* call has begun (one after another, or one thread per target).
LaunchWorkers ==
    /\ pc = "targets"
    /\ workers' = [w \in 1..Len(args_targets) |->
                     [target |-> args_targets[w], stack |-> <<>>, begun |-> FALSE,
                      pending |-> {}, extracted |-> {},
                      paths |-> <<>>, returned |-> FALSE]]
    /\ cache_upstreams' = EmptyMap
    /\ pc' = "shared"
    /\ UNCHANGED <<beside_workers, files, args_targets, writers_index, fqtn_targets, tgt, stack,
                   paths, all_rows, csv, exit_status, warnings, calls>>

\* Lines 392-398 in resolver w: its top-level call begins, at any time after
\* the dict is there (after the other call has returned, or beside it).
WorkerStart(w) ==
    /\ pc = "shared"
    /\ ~workers[w].begun
    /\ workers' = [workers EXCEPT ![w] =
                     [@ EXCEPT !.begun = TRUE,
                               !.stack = <<NewFrame(workers[w].target, <<>>)>>]]
    /\ calls' = Append(calls, <<"call", lower(workers[w].target)>>)
    /\ UNCHANGED <<beside_workers, files, args_targets, pc, writers_index, fqtn_targets, tgt, stack,
                   cache_upstreams, paths, all_rows, csv, exit_status, warnings>>

\* Mutant: the cache entry is made before the loop over the writers, with a
\* copy of the still empty set.
StoredBeforeExtraction(upstream_union) == {}

\* Line 418: cache_upstreams[start_fqtn] = upstream_union, after the loop of
\* lines 415-417 has filled the local set.
StoredUnion(upstream_union) == upstream_union

\* A return statement of a resolver's innermost call.
WorkerReturn(wk, subpaths) ==
    LET rest == SubSeq(wk.stack, 1, Len(wk.stack) - 1)
    IN  IF rest = <<>>
        THEN [wk EXCEPT !.stack = <<>>, !.paths = subpaths, !.returned = TRUE]
        ELSE [wk EXCEPT !.stack = ReturnTo(rest, subpaths)]

\* Lines 420-427 of a resolver's innermost call, with its writers and union.
WorkerBranch(wk, writers, upstream_union) ==
    LET fr == wk.stack[Len(wk.stack)]
    IN  IF IsSource(writers, upstream_union)
        THEN WorkerReturn(wk, << <<fr.start>> >>)
        ELSE [wk EXCEPT !.stack[Len(wk.stack)] =
                 [fr EXCEPT !.at = "loop", !.ups = BranchOrder(upstream_union)]]

\* Lines 400-403 in resolver w.
WorkerCut(w) ==
    /\ pc = "shared"
    /\ workers[w].stack # <<>>
    /\ LET wk == workers[w]
           fr == wk.stack[Len(wk.stack)]
       IN  /\ fr.at = "enter"
           /\ CycleGuard(fr.start, fr.visited_stack)
           /\ warnings' = Append(warnings, fr.start)
           /\ workers' = [workers EXCEPT ![w] = WorkerReturn(wk, CutPaths(fr.start))]
    /\ UNCHANGED <<beside_workers, files, args_targets, pc, writers_index, fqtn_targets, tgt, stack,
                   cache_upstreams, paths, all_rows, csv, exit_status, calls>>

\* Lines 405-409 in resolver w: find_writers_for_table, which reads the
\* candidate files; the cache has not been looked at yet.
WorkerLookup(w) ==
    /\ pc = "shared"
    /\ workers[w].stack # <<>>
    /\ LET wk == workers[w]
           fr == wk.stack[Len(wk.stack)]
       IN  /\ fr.at = "enter"
           /\ ~CycleGuard(fr.start, fr.visited_stack)
           /\ writers_index' = IndexAfterLookup(fr.start, writers_index)
           /\ workers' = [workers EXCEPT ![w].stack[Len(wk.stack)].at = "test"]
           /\ calls' = Append(calls, <<"writers", fr.start>>)
    /\ UNCHANGED <<beside_workers, files, args_targets, pc, fqtn_targets, tgt, stack,
                   cache_upstreams, paths, all_rows, csv, exit_status, warnings>>

\* Lines 412-413 in resolver w: the cache test; on a hit the cached union is
\* used, on a miss nothing has been extracted yet.
WorkerTest(w) ==
    /\ pc = "shared"
    /\ workers[w].stack # <<>>
    /\ LET wk == workers[w]
           fr == wk.stack[Len(wk.stack)]
           writers == find_writers_for_table(fr.start, files, writers_index)
       IN  /\ fr.at = "test"
           /\ IF IsCached(fr.start, cache_upstreams)
              THEN workers' = [workers EXCEPT ![w] =
                                  WorkerBranch(wk, writers, cache_upstreams[fr.start])]
              ELSE workers' = [workers EXCEPT ![w].stack[Len(wk.stack)].at = "miss"]
    /\ UNCHANGED <<beside_workers, files, args_targets, pc, writers_index, fqtn_targets, tgt, stack,
                   cache_upstreams, paths, all_rows, csv, exit_status, warnings, calls>>

\* Lines 414-417 in resolver w, after a miss: the writers' files are read and
\* the union of their read sets is built in the local set, whatever the cache
\* holds by now.
WorkerExtract(w) ==
    /\ pc = "shared"
    /\ workers[w].stack # <<>>
    /\ LET wk == workers[w]
           fr == wk.stack[Len(wk.stack)]
           writers == find_writers_for_table(fr.start, files, writers_index)
       IN  /\ fr.at = "miss"
           /\ workers' = [workers EXCEPT ![w] =
                             [wk EXCEPT !.stack[Len(wk.stack)].at = "store",
                                        !.pending = UpstreamUnion(files, writers),
                                        !.extracted = @ \cup {fr.start}]]
           /\ calls' = Append(calls, <<"extract", fr.start>>)
    /\ UNCHANGED <<beside_workers, files, args_targets, pc, writers_index, fqtn_targets, tgt, stack,
                   cache_upstreams, paths, all_rows, csv, exit_status, warnings>>

\* Line 418 in resolver w, then the terminal test on the local set.
WorkerStore(w) ==
    /\ pc = "shared"
    /\ workers[w].stack # <<>>
    /\ LET wk == workers[w]
           fr == wk.stack[Len(wk.stack)]
           writers == find_writers_for_table(fr.start, files, writers_index)
       IN  /\ fr.at = "store"
           /\ cache_upstreams' =
                 [k \in DOMAIN cache_upstreams \cup {fr.start} |->
                    IF k = fr.start THEN StoredUnion(wk.pending) ELSE cache_upstreams[k]]
           /\ workers' = [workers EXCEPT ![w] = WorkerBranch(wk, writers, wk.pending)]
    /\ UNCHANGED <<beside_workers, files, args_targets, pc, writers_index, fqtn_targets, tgt, stack,
                   paths, all_rows, csv, exit_status, warnings, calls>>

\* Lines 427-432 in resolver w.
WorkerRecurse(w) ==
    /\ pc = "shared"
    /\ workers[w].stack # <<>>
    /\ LET wk == workers[w]
           fr == wk.stack[Len(wk.stack)]
       IN  /\ fr.at = "loop"
           /\ fr.i <= Len(fr.ups)
           /\ Len(wk.stack) < MaxDepth
           /\ workers' = [workers EXCEPT ![w].stack =
                 Append(wk.stack, NewFrame(fr.ups[fr.i], fr.visited_stack \o <<fr.start>>))]
    /\ UNCHANGED <<beside_workers, files, args_targets, pc, writers_index, fqtn_targets, tgt, stack,
                   cache_upstreams, paths, all_rows, csv, exit_status, warnings, calls>>

\* Line 435 in resolver w.
WorkerFinish(w) ==
    /\ pc = "shared"
    /\ workers[w].stack # <<>>
    /\ LET wk == workers[w]
           fr == wk.stack[Len(wk.stack)]
       IN  /\ fr.at = "loop"
           /\ fr.i > Len(fr.ups)
           /\ workers' = [workers EXCEPT ![w] = WorkerReturn(wk, fr.all_paths)]
    /\ UNCHANGED <<beside_workers, files, args_targets, pc, writers_index, fqtn_targets, tgt, stack,
                   cache_upstreams, paths, all_rows, csv, exit_status, warnings, calls>>

NextShared ==
    \/ BuildIndex
    \/ LaunchWorkers
    \/ \E w \in DOMAIN workers : WorkerStart(w)
    \/ \E w \in DOMAIN workers : WorkerCut(w)
    \/ \E w \in DOMAIN workers : WorkerLookup(w)
    \/ \E w \in DOMAIN workers : WorkerTest(w)
    \/ \E w \in DOMAIN workers : WorkerExtract(w)
    \/ \E w \in DOMAIN workers : WorkerStore(w)
    \/ \E w \in DOMAIN workers : WorkerRecurse(w)
    \/ \E w \in DOMAIN workers : WorkerFinish(w)

SpecShared == InitShared /\ [][NextShared]_vars

(***************************************************************************)
(* ExpandLayerDependencies.py: expand_rows                                 *)
(***************************************************************************)

\* A row of the input CSV as csv.DictReader gives it: every column of the
\* header is a key, an empty cell is the empty string.
CsvRow(target, l1, l2, l3, source) ==
    [c \in {"Target Table", "Layer 1", "Layer 2", "Layer 3", "Source Table"} |->
        CASE c = "Target Table" -> target
          [] c = "Layer 1" -> l1
          [] c = "Layer 2" -> l2
          [] c = "Layer 3" -> l3
          [] OTHER -> source]

\* The rows an input is made of: full and short chains, a chain with an empty
\* cell inside, a row without target, cells with blanks around the value, a
\* layer that is a target of another row, in the same and in another case.
RowShapes ==
    << CsvRow("t", "m", "n", "", "s"),
       CsvRow("t", "m", "", "p", "s"),
       CsvRow("m", "n", "", "", "s"),
       CsvRow("", "m", "n", "", "s"),
       CsvRow("t", "", "", "", "s"),
       CsvRow("u", "n ", "p", "", "r"),
       CsvRow("t", "m", "n", "p", "s"),
       CsvRow(" t", "n", "", "", ""),
       CsvRow("u", "M", "n", "", "r"),
       CsvRow("u", "s", "", "", "r") >>

MaxRows == 3

\* The inputs: at most MaxRows rows, in any order, the same row possibly twice.
RowLists ==
    UNION { [1..n -> Range(RowShapes)] : n \in 0..MaxRows }

\* The layer column lists expand_rows is called with: all the Layer columns of
\* the header in numeric order (what main() passes), or a part of them.
LayerColumnLists ==
    { <<"Layer 1", "Layer 2", "Layer 3">>, <<"Layer 1", "Layer 2">>,
      <<"Layer 2", "Layer 3">> }

\* str.strip()
strip(v) ==
    CASE v = "n " -> "n"
      [] v = " t" -> "t"
      [] OTHER -> v

\* row.get(column)
Get(row, column) == IF column \in DOMAIN row THEN row[column] ELSE NoneVal

_normalise_value(value) == IF value = NoneVal THEN "" ELSE strip(value)

\* _normalise_value(row.get(TARGET_COLUMN))
TargetValue(row) == _normalise_value(Get(row, "Target Table"))

\* Mutant: no value counts as a target of the input.
NoBaseTargets(rows) == {}

base_targets(rows) == {TargetValue(rows[i]) : i \in 1..Len(rows)} \ {""}

\* Mutant: the tail starts at the promoted layer itself.
TailFromPromoted(original, idx, columns) ==
    SelectSeq([k \in 1..(Len(columns) - idx + 1) |->
                  _normalise_value(Get(original, columns[idx + k - 1]))],
              LAMBDA v : v # "")

\* The non-empty values of the layer columns after position idx, lines 165-170.
TailValues(original, idx, columns) ==
    SelectSeq([k \in 1..(Len(columns) - idx) |->
                  _normalise_value(Get(original, columns[idx + k]))],
              LAMBDA v : v # "")

\* new_row of expand_rows, lines 163-175.
new_row(original, idx, columns) ==
    LET layer_value == _normalise_value(Get(original, columns[idx]))
        tail == TailValues(original, idx, columns)
        source_value == _normalise_value(Get(original, "Source Table"))
        keys == {"Target Table"} \cup {LayerKey(k) : k \in 1..Len(tail)}
                  \cup (IF source_value # "" THEN {"Source Table"} ELSE {})
    IN  [c \in keys |->
            IF c = "Target Table" THEN layer_value
            ELSE IF c = "Source Table" THEN source_value
            ELSE tail[CHOOSE k \in 1..Len(tail) : LayerKey(k) = c]]

\* What the inner loop of expand_rows appends to grouped_rows from position
\* idx on, as (key, row) pairs in order.
RECURSIVE LayerEvents(_, _, _, _)
LayerEvents(original, idx, columns, base) ==
    IF idx > Len(columns) THEN <<>>
    ELSE LET layer_value == _normalise_value(Get(original, columns[idx]))
         IN  (IF layer_value = "" \/ layer_value \in base THEN <<>>
              ELSE <<[key |-> layer_value, row |-> new_row(original, idx, columns)]>>)
             \o LayerEvents(original, idx + 1, columns, base)

\* Mutant: a row without target is kept and its layers are promoted.
RowEventsBlankKept(original, columns, base) ==
    <<[key |-> TargetValue(original), row |-> original]>>
        \o LayerEvents(original, 1, columns, base)

\* One iteration of the outer loop, lines 150-178.
RowEvents(original, columns, base) ==
    IF TargetValue(original) = "" THEN <<>>
    ELSE <<[key |-> TargetValue(original), row |-> original]>>
         \o LayerEvents(original, 1, columns, base)

RECURSIVE GroupEvents(_, _, _)
GroupEvents(rows, columns, base) ==
    IF rows = <<>> THEN <<>>
    ELSE RowEvents(Head(rows), columns, base) \o GroupEvents(Tail(rows), columns, base)

\* ordered_targets, lines 180-187: the targets of the input in first-appearance
\* order, then the other keys of grouped_rows in insertion order.
ordered_targets(rows, events) ==
    LET originals == Dedupe(SelectSeq([i \in 1..Len(rows) |-> TargetValue(rows[i])],
                                      LAMBDA v : v # ""))
        keys == Dedupe([i \in 1..Len(events) |-> events[i].key])
    IN  originals \o SelectSeq(keys, LAMBDA k : k \notin Range(originals))

RECURSIVE GroupsInOrder(_, _)
GroupsInOrder(targets, events) ==
    IF targets = <<>> THEN <<>>
    ELSE LET group == SelectSeq(events, LAMBDA e : e.key = Head(targets))
         IN  [i \in 1..Len(group) |-> group[i].row]
             \o GroupsInOrder(Tail(targets), events)

\* The two KeyErrors of expand_rows, lines 139-142.
RaisesKeyError(rows) ==
    /\ rows # <<>>
    /\ \/ "Target Table" \notin DOMAIN rows[1]
       \/ "Source Table" \notin DOMAIN rows[1]

expand_rows(rows, columns) ==
    IF rows = <<>> THEN <<>>
    ELSE LET events == GroupEvents(rows, columns, base_targets(rows))
         IN  GroupsInOrder(ordered_targets(rows, events), events)

\* The tracer is not part of a run of an expander.
TracerIdle ==
    /\ files = <<>>
    /\ args_targets = <<>>
    /\ pc = "idle"
    /\ writers_index = EmptyMap
    /\ fqtn_targets = <<>>
    /\ tgt = 1
    /\ stack = <<>>
    /\ cache_upstreams = EmptyMap
    /\ paths = <<>>
    /\ all_rows = <<>>
    /\ csv = <<>>
    /\ exit_status = 0
    /\ warnings = <<>>
    /\ calls = <<>>
    /\ workers = <<>>

InitExpand ==
    /\ in_rows \in RowLists
    /\ layer_columns \in LayerColumnLists
    /\ out_rows = <<>>
    /\ again_rows = <<>>
    /\ expander_pc = "read"
    /\ TracerIdle
    /\ SasIdle

\* expanded_rows = expand_rows(rows, layer_columns)
Expand ==
    /\ expander_pc = "read"
    /\ IF RaisesKeyError(in_rows)
       THEN out_rows' = out_rows /\ expander_pc' = "KeyError"
       ELSE out_rows' = expand_rows(in_rows, layer_columns) /\ expander_pc' = "expanded"
    /\ UNCHANGED <<tracer_state, workers, sas_state, in_rows, layer_columns, again_rows>>

\* expand_rows applied to its own result, with the same layer columns.
ExpandAgain ==
    /\ expander_pc = "expanded"
    /\ IF RaisesKeyError(out_rows)
       THEN again_rows' = again_rows /\ expander_pc' = "KeyError"
       ELSE /\ again_rows' = expand_rows(out_rows, layer_columns)
            /\ expander_pc' = "expanded twice"
    /\ UNCHANGED <<tracer_state, workers, sas_state, in_rows, layer_columns, out_rows>>

NextExpand ==
    \/ Expand
    \/ ExpandAgain

SpecExpand == InitExpand /\ [][NextExpand]_vars

(***************************************************************************)
(* LayerToTargetExpander.py: expand_lineage_rows                           *)
(***************************************************************************)

\* The Layer columns of the headers the promoter is run on; a header without
\* Layer columns makes it return the rows as they are.
LayerHeaders ==
    { <<"Layer 1", "Layer 2", "Layer 3">>, <<"Layer 1", "Layer 2">>, <<>> }

\* The header: target, the layer columns, source.
FieldNames(layers) == <<"Target Table">> \o layers \o <<"Source Table">>

\* A row as csv.DictReader gives it under a header: the cells of its columns.
UnderHeader(row, fieldnames) == [c \in Range(fieldnames) |-> row[c]]

\* The Layer columns of the header sorted by their number, lines 53-58.
LayerColumnsOf(fieldnames) ==
    SelectSeq(LayerNames, LAMBDA name : name \in Range(fieldnames))

\* downstream_chain, lines 92-97: the following layer values up to the first
\* empty one.
RECURSIVE downstream_chain(_, _, _)
downstream_chain(row, idx, columns) ==
    IF idx > Len(columns) THEN <<>>
    ELSE LET next_value == _normalise_value(Get(row, columns[idx]))
         IN  IF next_value = "" THEN <<>>
             ELSE <<next_value>> \o downstream_chain(row, idx + 1, columns)

\* new_row of expand_lineage_rows, lines 101-112: the template with the target,
\* the chain in the Layer columns that exist, and the source.
promoted_row(row, idx, columns, fieldnames) ==
    LET chain == downstream_chain(row, idx + 1, columns)
    IN  [c \in Range(fieldnames) |->
            IF c = "Source Table" THEN _normalise_value(Get(row, "Source Table"))
            ELSE IF \E k \in 1..Len(chain) : LayerKey(k) = c
                 THEN chain[CHOOSE k \in 1..Len(chain) : LayerKey(k) = c]
            ELSE IF c = "Target Table" THEN _normalise_value(Get(row, columns[idx]))
            ELSE ""]

\* The inner loop, lines 79-121, from position idx on; st holds expanded_rows
\* and seen_targets.
RECURSIVE PromoteLayers(_, _, _, _, _)
PromoteLayers(row, idx, columns, fieldnames, st) ==
    IF idx > Len(columns) THEN st
    ELSE LET layer_value == _normalise_value(Get(row, columns[idx]))
             layer_key == lower(layer_value)
         IN  PromoteLayers(row, idx + 1, columns, fieldnames,
                 IF layer_value = "" \/ layer_key \in st.seen_targets THEN st
                 ELSE [expanded_rows |->
                           Append(st.expanded_rows,
                                  promoted_row(row, idx, columns, fieldnames)),
                       seen_targets |-> st.seen_targets \cup {layer_key}])

\* The outer loop, lines 73-121.
RECURSIVE PromoteRows(_, _, _, _)
PromoteRows(rows, columns, fieldnames, st) ==
    IF rows = <<>> THEN st
    ELSE PromoteRows(Tail(rows), columns, fieldnames,
             IF TargetValue(Head(rows)) = "" THEN st
             ELSE PromoteLayers(Head(rows), 1, columns, fieldnames, st))

\* The two KeyErrors of expand_lineage_rows, lines 48-51.
MissingColumn(fieldnames) ==
    \/ "Target Table" \notin Range(fieldnames)
    \/ "Source Table" \notin Range(fieldnames)

expand_lineage_rows(rows, fieldnames) ==
    LET columns == LayerColumnsOf(fieldnames)
    IN  IF columns = <<>> THEN rows
        ELSE PromoteRows(rows, columns, fieldnames,
                 [expanded_rows |-> rows,
                  seen_targets |-> {lower(TargetValue(rows[i])) : i \in 1..Len(rows)}
                                     \ {""}]).expanded_rows

InitPromote ==
    /\ layer_columns \in LayerHeaders
    /\ in_rows \in { [i \in 1..Len(rows) |->
                         UnderHeader(rows[i], FieldNames(layer_columns))] :
                     rows \in RowLists }
    /\ out_rows = <<>>
    /\ again_rows = <<>>
    /\ expander_pc = "loaded"
    /\ TracerIdle
    /\ SasIdle

\* expanded = expand_lineage_rows(rows, fieldnames)
Promote ==
    /\ expander_pc = "loaded"
    /\ IF MissingColumn(FieldNames(layer_columns))
       THEN out_rows' = out_rows /\ expander_pc' = "KeyError"
       ELSE /\ out_rows' = expand_lineage_rows(in_rows, FieldNames(layer_columns))
            /\ expander_pc' = "promoted"
    /\ UNCHANGED <<tracer_state, workers, sas_state, in_rows, layer_columns, again_rows>>

NextPromote == Promote

SpecPromote == InitPromote /\ [][NextPromote]_vars

(***************************************************************************)
(* The expanders run on the file that tracer() has written                 *)
(***************************************************************************)

\* csv.DictReader on a written table: the first line is the header, every
\* other line gives a row with one cell per column of the header.
read_csv(table) ==
    [j \in 1..(Len(table) - 1) |->
        [c \in Range(table[1]) |->
            table[j + 1][CHOOSE n \in 1..Len(table[1]) : table[1][n] = c]]]

\* tuple(row.get(field, "") or "" for field in fieldnames)
Signature(row, fieldnames) ==
    [n \in 1..Len(fieldnames) |->
        IF Get(row, fieldnames[n]) = NoneVal THEN "" ELSE Get(row, fieldnames[n])]

\* _deduplicate_rows: of the rows with one signature the first is kept.
_deduplicate_rows(rows, fieldnames) ==
    LET kept == {i \in 1..Len(rows) :
                    \A j \in 1..(i - 1) :
                        Signature(rows[j], fieldnames) # Signature(rows[i], fieldnames)}
        nth(S, n) == CHOOSE i \in S : Cardinality({j \in S : j < i}) = n - 1
    IN  [n \in 1..Cardinality(kept) |-> rows[nth(kept, n)]]

\* ExpandLayerDependencies main() on the written table: no data row gives an
\* empty output, a header without Layer columns a copy of the rows; otherwise
\* expand_rows, then _deduplicate_rows over the columns of the header.
ExpandTraced ==
    /\ pc = "done"
    /\ expander_pc = "idle"
    /\ LET rows == read_csv(csv)
           columns == LayerColumnsOf(csv[1])
       IN  /\ in_rows' = rows
           /\ layer_columns' = columns
           /\ IF rows = <<>>
              THEN out_rows' = <<>> /\ expander_pc' = "expanded"
              ELSE IF columns = <<>>
              THEN out_rows' = rows /\ expander_pc' = "expanded"
              ELSE IF RaisesKeyError(rows)
              THEN out_rows' = out_rows /\ expander_pc' = "KeyError"
              ELSE /\ out_rows' = _deduplicate_rows(expand_rows(rows, columns), csv[1])
                   /\ expander_pc' = "expanded"
    /\ UNCHANGED <<tracer_state, workers, sas_state, again_rows>>

\* LayerToTargetExpander: expand_lineage_rows on the rows and the header of
\* the written table.
PromoteTraced ==
    /\ pc = "done"
    /\ expander_pc = "idle"
    /\ LET rows == read_csv(csv)
       IN  /\ in_rows' = rows
           /\ layer_columns' = LayerColumnsOf(csv[1])
           /\ IF MissingColumn(csv[1])
              THEN out_rows' = out_rows /\ expander_pc' = "KeyError"
              ELSE out_rows' = expand_lineage_rows(rows, csv[1]) /\ expander_pc' = "promoted"
    /\ UNCHANGED <<tracer_state, workers, sas_state, again_rows>>

NextPipeline ==
    \/ BuildIndex
    \/ ResolveTargets
    \/ ExitNoTargets
    \/ StartTarget
    \/ DfsCut
    \/ DfsEnter
    \/ DfsRecurse
    \/ DfsReturn
    \/ ShapeRows
    \/ WriteCsv
    \/ ExpandTraced
    \/ PromoteTraced

SpecPipeline == Init /\ [][NextPipeline]_vars

(***************************************************************************)
(* SASDependencyTracer_ByCode.py: analyse_sas_file                         *)
(***************************************************************************)

\* The text of a SAS file after strip_comments, as what the regular
\* expressions find in it, in textual order: %let statements outside blocks,
\* and blocks (proc sql ... quit; / data ...; ... run;) whose body holds %let
\* statements and statements that name a table, literally or through a
\* macro reference.
Let(name, value) == [kind |-> "%let", name |-> name, value |-> value, body |-> <<>>]

\* create table <ref> ...;
CreateTable(ref) == [kind |-> "create table", name |-> "", value |-> ref, body |-> <<>>]

\* select ... from <ref>;
From(ref) == [kind |-> "from", name |-> "", value |-> ref, body |-> <<>>]

\* proc sql; <body> quit;
ProcSql(body) == [kind |-> "proc sql", name |-> "", value |-> "", body |-> body]

\* data <header>; <body> run;  The header is not part of Block.body.
DataStep(header, body) == [kind |-> "data", name |-> "", value |-> header, body |-> body]

IsBlock(item) == item.kind \in {"proc sql", "data"}

\* The pieces the files are made of.  Macro names are written in either case,
\* a value is a table name, a quoted upper-case table name or a reference to
\* another macro; a block refers to a macro before or after the %let in it.
ItemShapes ==
    << Let("t", "lib.a"),
       Let("t", "lib.b"),
       Let("u", "&t"),
       Let("T", "'LIB.C'"),
       Let("_output", "&u"),
       ProcSql(<<CreateTable("&t"), From("lib.b")>>),
       ProcSql(<<CreateTable("&T"), Let("t", "lib.b"), From("&u")>>),
       DataStep("&t", <<From("&u"), Let("u", "lib.a")>>),
       ProcSql(<<From("&t")>>) >>

MaxItems == 4

SasFiles == UNION { [1..n -> Range(ItemShapes)] : n \in 0..MaxItems }

\* m.group(1).lower() of a macro name
MacroName(name) == IF name = "T" THEN "t" ELSE name

\* A value that is one macro reference, &name
IsReference(v) == v \in {"&t", "&T", "&u"}

\* The lower-cased name in a reference
ReferredName(v) ==
    CASE v = "&u" -> "u"
      [] OTHER -> "t"

\* _sanitize_macro_value: the surrounding quotes are removed.
_sanitize_macro_value(v) == IF v = "'LIB.C'" THEN "LIB.C" ELSE v

\* expand_macros on a text that is one token: up to max_iter passes of
\* expand_macros_once, ended by the first pass that replaces nothing.
RECURSIVE expand_macros(_, _, _)
expand_macros(text, macros, max_iter) ==
    IF max_iter = 0 THEN text
    ELSE IF IsReference(text) /\ ReferredName(text) \in DOMAIN macros
         THEN expand_macros(macros[ReferredName(text)], macros, max_iter - 1)
         ELSE text

MaxIter == 5

\* {**a, **b}, a.update(b)
Merged(a, b) ==
    [n \in DOMAIN a \cup DOMAIN b |-> IF n \in DOMAIN b THEN b[n] ELSE a[n]]

\* eval_block_macro_assignments from the given position of the text on;
\* updates holds the assignments evaluated so far.
RECURSIVE EvalAssignments(_, _, _)
EvalAssignments(text, env_in, updates) ==
    IF text = <<>> THEN updates
    ELSE IF Head(text).kind # "%let" THEN EvalAssignments(Tail(text), env_in, updates)
    ELSE LET expanded_rhs == expand_macros(Head(text).value, Merged(env_in, updates), MaxIter)
             sanitized == _sanitize_macro_value(expanded_rhs)
         IN  EvalAssignments(Tail(text), env_in,
                 Merged(updates, [n \in {MacroName(Head(text).name)} |-> sanitized]))

eval_block_macro_assignments(block_text, env_in) ==
    EvalAssignments(block_text, env_in, <<>>)

\* normalize_identifier: the token expanded with the macros; nothing if a
\* reference is left in it, else the lower-cased name.
normalize_identifier(token, macros) ==
    LET expanded == expand_macros(token, macros, MaxIter)
    IN  IF IsReference(expanded) THEN NoneVal
        ELSE IF expanded = "'LIB.C'" \/ expanded = "LIB.C" THEN "lib.c"
        ELSE expanded

\* The tables the statements of a block body name, lines 353-366.  The body
\* is expanded with the block-local environment first, which for a token
\* is what normalize_identifier does again.
Collected(body, kind, local_env) ==
    {normalize_identifier(expand_macros(body[i].value, local_env, MaxIter), local_env) :
        i \in {j \in 1..Len(body) : body[j].kind = kind}} \ {NoneVal}

\* The macro hints, lines 406-421: the table a macro named _output holds.
OutputHints(macros) ==
    {normalize_identifier(macros[n], macros) : n \in DOMAIN macros \cap {"_output"}}
        \ {NoneVal}

\* split_blocks: the positions of the blocks in the text.
Blocks(text) == {i \in 1..Len(text) : IsBlock(text[i])}

\* The next block at or behind the cursor.
NextBlock == CHOOSE b \in Blocks(sas_text) :
                 b >= cursor /\ \A c \in Blocks(sas_text) : c >= cursor => b <= c

\* Mutant: the %let statements up to the end of the file are evaluated
\* before the block.
PreSliceToEndOfFile(text, from, b) == SubSeq(text, from, Len(text))

\* pre_slice = no_comments[cursor:b.start]
PreSlice(text, from, b) == SubSeq(text, from, b - 1)

InitSas ==
    /\ sas_text \in SasFiles
    /\ env = <<>>
    /\ cursor = 1
    /\ block_tables = <<>>
    /\ sas_pc = "blocks"
    /\ TracerIdle
    /\ ExpanderIdle

\* One iteration of "for b in blocks", lines 334-426.
AnalyseBlock ==
    /\ sas_pc = "blocks"
    /\ \E b \in Blocks(sas_text) : b >= cursor
    /\ LET b == NextBlock
           pre_updates == eval_block_macro_assignments(PreSlice(sas_text, cursor, b), env)
           env_before == Merged(env, pre_updates)
           block_updates == eval_block_macro_assignments(sas_text[b].body, env_before)
           local_env == Merged(env_before, block_updates)
       IN  /\ block_tables' =
                 Append(block_tables,
                        [read |-> Collected(sas_text[b].body, "from", local_env),
                         written |-> Collected(sas_text[b].body, "create table", local_env)
                                       \cup OutputHints(Merged(env_before, block_updates))])
           /\ env' = Merged(env_before, block_updates)
           /\ cursor' = b + 1
    /\ UNCHANGED <<tracer_state, workers, expander_state, sas_text, sas_pc>>

\* The end of the loop, lines 428-435: the %let statements behind the last
\* block are not evaluated.
AnalyseEnd ==
    /\ sas_pc = "blocks"
    /\ ~\E b \in Blocks(sas_text) : b >= cursor
    /\ sas_pc' = "done"
    /\ UNCHANGED <<tracer_state, workers, expander_state, sas_text, env, cursor,
                   block_tables>>

\* read_tables and write_tables as the loop has built them
read_tables == UNION {block_tables[k].read : k \in 1..Len(block_tables)}

write_tables == UNION {block_tables[k].written : k \in 1..Len(block_tables)}

\* The (inputs, intermediates, outputs) that analyse_sas_file returns
SasResult ==
    [inputs |-> read_tables \ write_tables,
     intermediates |-> read_tables \cap write_tables,
     outputs |-> write_tables \ read_tables]

NextSas ==
    \/ AnalyseBlock
    \/ AnalyseEnd

SpecSas == InitSas /\ [][NextSas]_vars

(***************************************************************************)
(* The writer graph, stated from the files                                 *)
(***************************************************************************)

\* The target of the top-level call that is running or has just returned.
Target == fqtn_targets[tgt]

\* A top-level call of dfs_lineage_paths has just returned `paths`.
Returned == pc = "shape"

WritersOf(t) == find_writers_for_table(t, files, writers_index)

\* The read set of one writer: spark.table reads of a script, FROM/JOIN reads of a view.
ReadSetIn(fs, w) ==
    LET f == CHOOSE g \in Range(fs) : g.path = w.file_path
    IN  {lower(n) : n \in (IF w.kind = "spark" THEN f.spark_tables ELSE f.from_join)}

ReadSet(w) == ReadSetIn(files, w)

\* u is an upstream of t: some writer of t reads u.
Edge(t, u) == \E i \in 1..Len(WritersOf(t)) : u \in ReadSet(WritersOf(t)[i])

UpstreamsOf(t) == {u \in QNames : Edge(t, u)}

\* No writer, or the writers read nothing.
Terminal(t) == UpstreamsOf(t) = {}

\* The writer graph: each table with its set of upstreams.
Graph == [t \in QNames |-> UpstreamsOf(t)]

\* The tables reachable from the set S in at most n steps (S included).
RECURSIVE Closure(_, _, _)
Closure(g, S, n) ==
    IF n = 0 THEN S ELSE Closure(g, S \cup UNION {g[t] : t \in S}, n - 1)

\* The tables reachable from t in one step or more.
Descendants(g, t) == Closure(g, g[t], Cardinality(QNames))

IsAcyclic(g) == \A t \in QNames : t \notin Descendants(g, t)

Acyclic == IsAcyclic(Graph)

\* The walks that start at t and have at most n tables.
RECURSIVE WalksFrom(_, _, _)
WalksFrom(g, t, n) ==
    IF n = 1 THEN {<<t>>}
    ELSE {<<t>>} \cup {<<t>> \o q : q \in UNION {WalksFrom(g, u, n - 1) : u \in g[t]}}

\* Every path from t along edges to a terminal table (on an acyclic graph no
\* path has more tables than there are).
AllPaths(g, t) ==
    {p \in WalksFrom(g, t, Cardinality(QNames)) : g[p[Len(p)]] = {}}

NoDuplicates(s) == \A i, j \in 1..Len(s) : i # j => s[i] # s[j]

FilePaths == [i \in 1..Len(files) |-> files[i].path]

(***************************************************************************)
(* Claims                                                                  *)
(***************************************************************************)

\* C1: on an acyclic writer graph a top-level call returns exactly the paths
\* from the target along upstream edges to a terminal table, each once; for
\* the chain s.a <- s.b <- s.c (s.c unwritten) it returns [[s.a, s.b, s.c]].
C1_ExactPaths ==
    (Returned /\ Acyclic) =>
        /\ Range(paths) = AllPaths(Graph, Target)
        /\ NoDuplicates(paths)
        /\ (Range(FilePaths) = {"etl_a.py", "etl_b.py"} /\ Target = "s.a")
              => paths = << <<"s.a", "s.b", "s.c">> >>

\* The chain has been traced, and so has an acyclic graph with several paths.
C1_Witness ==
    /\ Returned /\ Acyclic
    /\ Range(FilePaths) = {"etl_a.py", "etl_b.py"} /\ Target = "s.a"
    /\ paths = << <<"s.a", "s.b", "s.c">> >>


\* Where the run of dfs_lineage_paths stands: for each call on the stack, 0
\* before its body has run, else the number of the branch it is at.
Position ==
    [k \in 1..Len(stack) |-> IF stack[k].at = "enter" THEN 0 ELSE stack[k].i]

\* p comes before q in the lexicographic order (a proper prefix comes first).
LexLess(p, q) ==
    \E k \in 1..Len(q) :
        /\ \A j \in 1..(k - 1) : j <= Len(p) /\ p[j] = q[j]
        /\ k > Len(p) \/ p[k] < q[k]

\* The longest chain of calls: the start name, the tables read in the files
\* without repetition, and the call that is cut.
MaxChain == Cardinality(QNames) + 2

\* A step of dfs_lineage_paths.
DfsStep == DfsCut \/ DfsEnter \/ DfsRecurse \/ DfsReturn

Top == stack[Len(stack)]

\* The next recursive call would go beyond the recursion limit.
RecursionError ==
    /\ pc = "dfs" /\ stack # <<>>
    /\ Top.at = "loop" /\ Top.i <= Len(Top.ups)
    /\ Len(stack) >= MaxDepth

\* A running call has a next step unless it is at the recursion limit: before
\* its body either the guard cuts it or the body runs, in the loop it recurses
\* or returns.
StepsUnlessAtLimit == pc = "dfs" => (ENABLED DfsStep <=> ~RecursionError)

\* The positions are finitely many: no ancestor chain repeats a table, every
\* table behind the start name is read in some file, a branch number is at most
\* one beyond the upstreams; and a running call never needs a call beyond the
\* recursion limit, so that it always has its next step.
C2_Bounded ==
    /\ pc = "dfs" =>
          /\ stack # <<>> /\ ~RecursionError
          /\ Len(stack) <= MaxChain
          /\ \A k \in 1..Len(stack) :
                /\ NoDuplicates(stack[k].visited_stack)
                /\ Len(stack[k].visited_stack) = k - 1
                /\ k > 1 => stack[k].start \in QNames
                /\ stack[k].i <= Len(stack[k].ups) + 1
                /\ Range(stack[k].ups) \subseteq QNames /\ NoDuplicates(stack[k].ups)
    /\ Returned =>
          /\ paths # <<>>
          /\ \A j \in 1..Len(paths) : Len(paths[j]) \in 1..MaxChain

\* A step of a running call returns to tracer() or moves the position forward.
C2_Step ==
    pc = "dfs" => \/ pc' = "shape"
                  \/ pc' = "dfs" /\ LexLess(Position, Position')

\* C2: every top-level call of dfs_lineage_paths returns a finite list of
\* finite paths, whatever the writer graph (mutual cycles and self-referencing
\* writers included): a running call can always step, each step moves it
\* forward in a finite well-order, and that order ends with the return.
C2_Terminates == [](C2_Bounded) /\ [][C2_Step]_vars

\* C2, as a liveness property of the fair run: a call that started has returned
\* at some later point.
C2_EventuallyReturns == (pc = "dfs") ~> Returned

\* A call on a table of a mutual cycle has returned.
C2_Witness ==
    /\ Returned /\ Target = "s.a"
    /\ "s.b" \in Graph["s.a"] /\ "s.a" \in Graph["s.b"]
    /\ warnings # <<>>

\* The innermost call is about to run on a table of its ancestor chain.
CutCall ==
    pc = "dfs" /\ stack # <<>> /\ Top.at = "enter"
        /\ Top.start \in Range(Top.visited_stack)

\* The innermost call is about to return from its branching loop.
LoopReturns ==
    pc = "dfs" /\ stack # <<>> /\ Top.at = "loop" /\ Top.i > Len(Top.ups)

C3_Step ==
    /\ CutCall =>
          /\ Len(stack) >= 2
          /\ Len(stack') = Len(stack) - 1
          /\ \A k \in 1..(Len(stack) - 2) : stack'[k] = stack[k]
          /\ LET caller == stack[Len(stack) - 1]
                 after == stack'[Len(stack) - 1]
             IN  /\ after.all_paths = Append(caller.all_paths, <<caller.start, Top.start>>)
                 /\ after.i = caller.i + 1
                 /\ after.ups = caller.ups
                 /\ after.at = "loop"
          /\ calls' = calls
          /\ cache_upstreams' = cache_upstreams
          /\ pc' = "dfs"
    /\ LoopReturns =>
          \A u \in UpstreamsOf(Top.start) :
              \E j \in 1..Len(Top.all_paths) :
                  Top.all_paths[j][1] = Top.start /\ Top.all_paths[j][2] = u
    /\ Returned => \A j \in 1..Len(paths) : Len(paths[j]) <= Cardinality(QNames) + 1

\* C3: a call on a table of its ancestor chain returns the one path [table]
\* to its caller without looking up writers, extracting upstreams or recursing;
\* the caller goes on with its next upstream, and every call that returns from
\* its loop has a path through each of its upstreams; no path is longer than
\* the number of tables plus one.
C3_CutBranchOnly == [][C3_Step]_vars

HasRepeat(p) == \E i, j \in 1..Len(p) : i # j /\ p[i] = p[j]

\* A branch was cut and a sibling branch enumerated after it.
C3_Witness ==
    /\ Returned /\ warnings # <<>>
    /\ \E i, j \in 1..Len(paths) :
          i < j /\ HasRepeat(paths[i]) /\ ~HasRepeat(paths[j])

\* C4 (as claimed): no returned path contains the same table twice.
C4_NoTableTwice == Returned => \A j \in 1..Len(paths) : ~HasRepeat(paths[j])

\* C5 (as claimed): the last table of every returned path is a terminal table.
C5_LastIsTerminal ==
    Returned => \A j \in 1..Len(paths) : Terminal(paths[j][Len(paths[j])])

\* C6: each adjacent pair of a returned path is an edge of the writer graph:
\* the first has a writer, and one of its writers reads the second.
C6_AdjacentPairsAreEdges ==
    Returned =>
        \A j \in 1..Len(paths) : \A i \in 1..(Len(paths[j]) - 1) :
            /\ WritersOf(paths[j][i]) # <<>>
            /\ Edge(paths[j][i], paths[j][i + 1])

\* A path with two edges has been returned from the file whose FROM clause
\* is not an upstream of its spark writer.
C6_Witness ==
    /\ Returned /\ Target = "s.d"
    /\ "etl_d.py" \in Range(FilePaths)
    /\ \E j \in 1..Len(paths) : Len(paths[j]) >= 3

\* The prefixes of the returned paths that end at x.
PrefixesTo(x) ==
    {q \in UNION {{SubSeq(paths[j], 1, i) : i \in 1..Len(paths[j])} :
                    j \in 1..Len(paths)} : q[Len(q)] = x}

\* The routes from t to x: the walks that start at t and end at x.
RoutesTo(g, t, x) == {w \in WalksFrom(g, t, Cardinality(QNames)) : w[Len(w)] = x}

\* C7: on an acyclic graph every route from the target to a table is followed
\* by a returned path (k routes give k distinct prefixes), and no path occurs
\* twice; the diamond gives exactly [d,b,a] and [d,c,a].
C7_RoutesGivePaths ==
    Returned =>
        /\ (Range(FilePaths) = {"etl_d.py", "ins_b.py", "v_c.sql"} /\ Target = "s.d")
              => paths = << <<"s.d", "s.b", "s.a">>, <<"s.d", "s.c", "s.a">> >>
        /\ Acyclic =>
              /\ NoDuplicates(paths)
              /\ \A x \in QNames : PrefixesTo(x) = RoutesTo(Graph, Target, x)

\* The diamond has been traced.
C7_Witness ==
    /\ Returned /\ Target = "s.d"
    /\ Range(FilePaths) = {"etl_d.py", "ins_b.py", "v_c.sql"}
    /\ Cardinality(RoutesTo(Graph, "s.d", "s.a")) = 2
    /\ Len(paths) = 2

\* C8: every table that was branched on has, for every one of its writers and
\* every table that writer reads, a returned path that continues through that
\* table: the upstream set is the union over the writers.
C8_UnionOfWriters ==
    Returned =>
        \A j \in 1..Len(paths) : \A i \in 1..Len(paths[j]) :
            (i = 1 \/ i < Len(paths[j])) =>
                \A k \in 1..Len(WritersOf(paths[j][i])) :
                    \A x \in ReadSet(WritersOf(paths[j][i])[k]) :
                        \E m \in 1..Len(paths) :
                            /\ Len(paths[m]) > i
                            /\ SubSeq(paths[m], 1, i) = SubSeq(paths[j], 1, i)
                            /\ paths[m][i + 1] = x

\* A target with two writers that read different tables has been traced.
C8_Witness ==
    /\ Returned /\ Target = "s.b"
    /\ \E k, m \in 1..Len(WritersOf("s.b")) :
          /\ ReadSet(WritersOf("s.b")[k]) = {"s.c"}
          /\ ReadSet(WritersOf("s.b")[m]) = {"s.a"}
    /\ \E j, m \in 1..Len(paths) : paths[j][2] = "s.a" /\ paths[m][2] = "s.c"

TerminalRow(t) == [k \in {"Target Table", "Source Table"} |-> t]

\* C9: a target without writers, or whose writers read nothing, gives the
\* single path [target], and shaping it adds exactly one row, with Target
\* Table and Source Table the target and no Layer key; the run goes on.
C9_TerminalTarget ==
    [][(Returned /\ Terminal(Target)) =>
          /\ paths = << <<Target>> >>
          /\ all_rows' = Append(all_rows, TerminalRow(Target))
          /\ exit_status' = 0
          /\ pc' = "loop"]_vars

\* The row of a target that has a writer reading nothing has been added.
C9_Witness ==
    /\ pc = "loop" /\ tgt = 2
    /\ WritersOf(fqtn_targets[1]) # <<>>
    /\ Terminal(fqtn_targets[1])
    /\ all_rows = <<TerminalRow(fqtn_targets[1])>>

\* The position of a canonical name in lexicographic order.
Rank(n) == CHOOSE i \in 1..Len(SortedNames) : SortedNames[i] = n

Ascending(s) == \A i, j \in 1..Len(s) : i < j => Rank(s[i]) < Rank(s[j])

\* The files of the run, listed in the order of FileShapes whatever the order
\* they were listed in.
CanonFiles == SelectSeq(FileShapes, LAMBDA f : f \in Range(files))

\* The enumeration as a function of a corpus: cut at a table of the ancestor
\* chain, stop at a table no writer of which reads anything, otherwise branch
\* on the upstreams in lexicographic order.
RECURSIVE RefPaths(_, _, _, _)
RECURSIVE RefBranches(_, _, _, _, _)
RefPaths(fs, idx, start, visited) ==
    IF start \in Range(visited) THEN << <<start>> >>
    ELSE LET ws == find_writers_for_table(start, fs, idx)
             ups == {u \in QNames : \E k \in 1..Len(ws) : u \in ReadSetIn(fs, ws[k])}
         IN  IF ups = {} THEN << <<start>> >>
             ELSE RefBranches(fs, idx, start, visited, sorted(ups))

RefBranches(fs, idx, start, visited, upseq) ==
    IF upseq = <<>> THEN <<>>
    ELSE LET sub == RefPaths(fs, idx, Head(upseq), visited \o <<start>>)
         IN  [j \in 1..Len(sub) |-> <<start>> \o sub[j]]
             \o RefBranches(fs, idx, start, visited, Tail(upseq))

RECURSIVE RefRowsFor(_, _, _)
RefRowsFor(fs, idx, targets) ==
    IF targets = <<>> THEN <<>>
    ELSE shape_paths_to_rows(Head(targets), RefPaths(fs, idx, Head(targets), <<>>))
         \o RefRowsFor(fs, idx, Tail(targets))

\* The rows of a run on corpus fs with the --targets list given.
RefRows(fs, given) ==
    RefRowsFor(fs, index_writers(fs), ResolveTargetList(given, index_writers(fs)))

\* C10: the rows and the written table of a run are those of the run on the
\* same files listed in a fixed order, in the same order, and a run exits
\* without targets only if that run does; every branching loop takes its
\* upstreams in ascending lexicographic order.
C10_Deterministic ==
    /\ \A k \in 1..Len(stack) : Ascending(stack[k].ups)
    /\ pc = "done" =>
          /\ all_rows = RefRows(CanonFiles, args_targets)
          /\ csv = write_csv(RefRows(CanonFiles, args_targets))
    /\ pc = "exit" =>
          ResolveTargetList(args_targets, index_writers(CanonFiles)) = <<>>

\* A run has finished on files listed in the other order, with a table whose
\* two writers read different tables.
C10_Witness ==
    /\ pc = "done"
    /\ files # CanonFiles
    /\ FilePaths = <<"ins_b.py", "etl_b.py">>
    /\ Len(all_rows) >= 2

(***************************************************************************)
(* C11: one identity per table, whatever the spelling                      *)
(***************************************************************************)

\* The name is in canonical (lower-case) form.
IsLower(n) == lower(n) = n

AllLower(s) == \A i \in 1..Len(s) : IsLower(s[i])

\* C11: a call of dfs_lineage_paths returns the paths of the lower-cased start
\* name, so the calls with DB.Tbl and with db.tbl return the same paths; and
\* every key of the writers index, every key and member of the upstream cache,
\* every start name, ancestor-chain entry and pending upstream of an active
\* call and every element of a returned path is in lower case.
C11_OneIdentity ==
    /\ \A k \in DOMAIN writers_index : IsLower(k)
    /\ \A k \in DOMAIN cache_upstreams :
          IsLower(k) /\ \A u \in cache_upstreams[k] : IsLower(u)
    /\ \A k \in 1..Len(stack) :
          /\ IsLower(stack[k].start)
          /\ AllLower(stack[k].visited_stack)
          /\ AllLower(stack[k].ups)
          /\ \A j \in 1..Len(stack[k].all_paths) : AllLower(stack[k].all_paths[j])
    /\ Returned =>
          /\ \A j \in 1..Len(paths) : AllLower(paths[j])
          /\ paths = RefPaths(files, writers_index, lower(args_targets[1]), <<>>)

\* A call with an upper-case start name has returned a path of three tables,
\* through a file that spells a table it reads in upper case.
C11_Witness ==
    /\ Returned
    /\ ~IsLower(args_targets[1])
    /\ \E j \in 1..Len(paths) : Len(paths[j]) >= 3
    /\ \E f \in Range(files) : \E n \in f.spark_tables : ~IsLower(n)

(***************************************************************************)
(* C12: a ceiling on one target's enumeration                              *)
(***************************************************************************)

\* C12: whatever ceiling c is configured, the enumeration of one target
\* returns at most c paths, or no path of more than c tables (dfs_lineage_paths
\* returns paths only, so a truncated result could show in nothing else).
C12_CeilingRespected ==
    \A c \in 1..Len(SortedNames) :
        Returned => \/ Len(paths) <= c
                    \/ \A j \in 1..Len(paths) : Len(paths[j]) <= c

(***************************************************************************)
(* C13: the shape of a row                                                 *)
(***************************************************************************)

\* The Layer keys of a row.
LayerKeysOf(row) == DOMAIN row \ {"Target Table", "Source Table"}

\* The step that shapes the returned paths appends one row per path, in order;
\* the row of a path p of n tables (p[1] is Python's p[0]) has Source Table
\* p[n], the keys Layer 1 .. Layer n-2 and no other Layer key, and Layer i is
\* p[i + 1]; a path of one table gives Target Table and Source Table only.
C13_Step ==
    Returned =>
        /\ Len(all_rows') = Len(all_rows) + Len(paths)
        /\ SubSeq(all_rows', 1, Len(all_rows)) = all_rows
        /\ \A j \in 1..Len(paths) :
              LET p == paths[j]
                  n == Len(p)
                  row == all_rows'[Len(all_rows) + j]
              IN  /\ "Target Table" \in DOMAIN row
                  /\ "Source Table" \in DOMAIN row
                  /\ row["Source Table"] = p[n]
                  /\ LayerKeysOf(row) = {LayerNames[i] : i \in 1..(n - 2)}
                  /\ \A i \in 1..(n - 2) : row[LayerNames[i]] = p[i + 1]

\* C13: shape_paths_to_rows gives exactly one row per path, in path order; a
\* path of length 1 gives Target Table and Source Table p[0] and no Layer key;
\* a path of length n >= 2 gives Layer i = p[i] for 1 <= i <= n-2 and Source
\* Table p[n-1], so exactly n-2 Layer keys numbered from 1 without gap, and the
\* position p[0] goes to no Layer or Source field.
C13_OneRowPerPath == [][C13_Step]_vars

\* Rows have been shaped from a path of four tables, a path of two and a path
\* of one.
C13_Witness ==
    /\ pc = "loop"
    /\ \E i, j, k \in 1..Len(all_rows) :
          /\ LayerKeysOf(all_rows[i]) = {"Layer 1", "Layer 2"}
          /\ LayerKeysOf(all_rows[j]) = {}
          /\ all_rows[j]["Target Table"] # all_rows[j]["Source Table"]
          /\ LayerKeysOf(all_rows[k]) = {}
          /\ all_rows[k]["Target Table"] = all_rows[k]["Source Table"]

(***************************************************************************)
(* C14: the Target Table field                                             *)
(***************************************************************************)

\* In the step that shapes the returned paths, every new row's Target Table is
\* the target tracer() passed to dfs_lineage_paths and to shape_paths_to_rows,
\* and every returned path starts with it.
C14_Step ==
    Returned =>
        \A j \in 1..Len(paths) :
            /\ Len(all_rows') >= Len(all_rows) + j
            /\ all_rows'[Len(all_rows) + j]["Target Table"] = fqtn_targets[tgt]
            /\ paths[j][1] = fqtn_targets[tgt]

\* C14: the Target Table field of a row is the target the caller supplied,
\* and it agrees with p[0] of the row's path.
C14_TargetField == [][C14_Step]_vars

\* The rows of a target given as a bare name have been shaped: two paths of
\* s.d, requested as "d".
C14_Witness ==
    /\ pc = "loop"
    /\ args_targets = <<"d", "s.a">>
    /\ Cardinality({i \in 1..Len(all_rows) : all_rows[i]["Target Table"] = "s.d"}) >= 2
    /\ \E i \in 1..Len(all_rows) :
          all_rows[i]["Target Table"] = "s.d" /\ "Layer 1" \in DOMAIN all_rows[i]

(***************************************************************************)
(* C15: the columns of the written table                                   *)
(***************************************************************************)

\* The largest number of Layer keys of a row.
MostLayers(rows) ==
    CHOOSE n \in 0..Len(LayerNames) :
        /\ \A j \in 1..Len(rows) : Cardinality(LayerKeysOf(rows[j])) <= n
        /\ n > 0 => \E j \in 1..Len(rows) : Cardinality(LayerKeysOf(rows[j])) = n

\* C15: the header written by write_csv is Target Table, Layer 1 .. Layer N,
\* Source Table, N being the largest number of layers of any row of any
\* target; every row gives one line, every Layer value of a row is written in
\* its column, and a row with fewer layers has the empty string in the
\* remaining Layer columns.
C15_Columns ==
    pc = "done" =>
        LET N == MostLayers(all_rows)
        IN  /\ Len(csv) = Len(all_rows) + 1
            /\ csv[1] = <<"Target Table">> \o [i \in 1..N |-> LayerNames[i]]
                         \o <<"Source Table">>
            /\ \A j \in 1..Len(all_rows) :
                  LET row == all_rows[j]
                      line == csv[j + 1]
                  IN  /\ Len(line) = N + 2
                      /\ line[1] = row["Target Table"]
                      /\ line[N + 2] = row["Source Table"]
                      /\ \A i \in 1..N :
                            line[i + 1] = IF LayerNames[i] \in DOMAIN row
                                          THEN row[LayerNames[i]] ELSE ""

\* The table has been written for two targets; a row without layers comes
\* before a row of another target with two layers.
C15_Witness ==
    /\ pc = "done"
    /\ \E i, j \in 1..Len(all_rows) :
          /\ i < j
          /\ all_rows[i]["Target Table"] # all_rows[j]["Target Table"]
          /\ LayerKeysOf(all_rows[i]) = {}
          /\ Cardinality(LayerKeysOf(all_rows[j])) = 2
          /\ csv[i + 1][2] = ""

(***************************************************************************)
(* C16: the order of the rows                                              *)
(***************************************************************************)

\* The list of names the run was asked for.
RequestedNames == IF args_targets # <<>> THEN args_targets ELSE DefaultTargets

\* The requested name stands for the canonical target t.
StandsFor(name, t) == lower(name) = t \/ ends_with_dot(t, lower(name))

\* The position at which target t was first requested.
RequestPosition(t) ==
    CHOOSE i \in 1..Len(RequestedNames) :
        /\ StandsFor(RequestedNames[i], t)
        /\ \A k \in 1..(i - 1) : ~StandsFor(RequestedNames[k], t)

TargetOfRow(j) == all_rows[j]["Target Table"]

\* C16 as claimed: the rows are grouped by target, the targets in the order in
\* which they were requested.
C16_RequestOrder ==
    pc = "done" =>
        \A i, j \in 1..Len(all_rows) :
            i < j => RequestPosition(TargetOfRow(i)) <= RequestPosition(TargetOfRow(j))

\* C16, amended: the rows are grouped by target, the targets in ascending
\* lexicographic order of their canonical names whatever the order of the
\* request, each resolved target once; the rows of one target are one per
\* enumerated path, in enumeration order.
C16_SortedTargetOrder ==
    pc = "done" =>
        /\ \A i, j \in 1..Len(all_rows) :
              i < j => Rank(TargetOfRow(i)) <= Rank(TargetOfRow(j))
        /\ {TargetOfRow(j) : j \in 1..Len(all_rows)}
              = {t \in QNames \cup DOMAIN writers_index :
                   \E i \in 1..Len(RequestedNames) :
                      /\ StandsFor(RequestedNames[i], t)
                      /\ has_dot(RequestedNames[i]) \/ t \in DOMAIN writers_index}
        /\ \A t \in QNames :
              SelectSeq(all_rows, LAMBDA r : r["Target Table"] = t) # <<>> =>
                 SelectSeq(all_rows, LAMBDA r : r["Target Table"] = t)
                    = shape_paths_to_rows(t, RefPaths(files, writers_index, t, <<>>))

\* The table has been written for targets requested as s.d, s.b: the rows of
\* s.b come first, and s.d has two rows.
C16_Witness ==
    /\ pc = "done"
    /\ args_targets = <<"s.d", "s.b">>
    /\ TargetOfRow(1) = "s.b"
    /\ Cardinality({j \in 1..Len(all_rows) : TargetOfRow(j) = "s.d"}) >= 2

(***************************************************************************)
(* C17: the registered writers, filtered by the name test                  *)
(***************************************************************************)

\* The writers the index holds for table t.
Registered(t) == IF t \in DOMAIN writers_index THEN Range(writers_index[t]) ELSE {}

\* The text of the file at path p contains the name t, in any spelling.
TextContains(p, t) ==
    \E f \in Range(files) : f.path = p /\ \E n \in f.mentions : lower(n) = t

\* The writer lookup has been made for table t.
LookedUp(t) == \E k \in 1..Len(calls) : calls[k] = <<"writers", t>>

\* C17: once the index is built, for every table t: when a writer registered
\* for t is in a file whose text contains t's name, find_writers_for_table
\* returns exactly the registered writers of t in such files, no (file, kind)
\* twice; and no writer of a file without the name is returned in any case.
C17_FilteredRegistered ==
    pc # "index" =>
        \A t \in QNames :
            LET passing == {w \in Registered(t) : TextContains(w.file_path, t)}
                result == find_writers_for_table(t, files, writers_index)
            IN  /\ passing # {} =>
                      /\ Range(result) = passing
                      /\ NoDuplicates(result)
                /\ \A w \in Range(result) : TextContains(w.file_path, t)

\* The writers of s.d have been looked up in a corpus where s.d has two
\* registered writers, one of them in a file that does not contain the name.
C17_Witness ==
    /\ LookedUp("s.d")
    /\ Cardinality(Registered("s.d")) = 2
    /\ \E w \in Registered("s.d") : ~TextContains(w.file_path, "s.d")
    /\ Len(WritersOf("s.d")) = 1

(***************************************************************************)
(* C18: the re-scan against the rules of the index                         *)
(***************************************************************************)

\* The lookup of t finds no registered writer in a candidate file and
\* re-scans the candidates.
Rescans(t) ==
    IndexedWriters(t, filter_candidate_files_by_name(files, t), writers_index) = <<>>

\* C18: when the lookup of a table t re-scans the candidate files, a
\* candidate file is reported as a spark (view) writer of t exactly when
\* index_writers registers that file as a spark (view) writer of t.
C18_SameRules ==
    \A t \in QNames :
        (LookedUp(t) /\ Rescans(t)) =>
            LET cands == filter_candidate_files_by_name(files, t)
                found == Range(DirectParse(files, cands, t))
            IN  \A i \in 1..Len(cands) : \A kind \in {"spark", "view"} :
                    WriterInfo(cands[i], kind) \in found
                        <=> WriterInfo(cands[i], kind)
                              \in Range(IndexEntriesOfFile(read_text(files, cands[i]), t))

(***************************************************************************)
(* C19: the writers index is read-only once built                          *)
(***************************************************************************)

\* No call of dfs_lineage_paths starts before the index is built, and no step
\* after the building changes the index.
C19_Step ==
    /\ stack' # <<>> => pc # "index" /\ writers_index' = index_writers(files)
    /\ pc # "index" => writers_index' = writers_index

\* C19: the writers index is complete before the first call of
\* dfs_lineage_paths and no call of dfs_lineage_paths or of
\* find_writers_for_table changes it, the lookup of a table that is no key of
\* the index included.
C19_IndexReadOnly == [][C19_Step]_vars

\* A run has finished in which the writers of a table that is no key of the
\* index were looked up.
C19_Witness ==
    /\ pc = "done"
    /\ \E t \in QNames : LookedUp(t) /\ t \notin DOMAIN writers_index
    /\ DOMAIN writers_index # {}

(***************************************************************************)
(* C20: the upstream union is extracted once                               *)
(***************************************************************************)

\* Event k of the history is the extraction of the upstream union of t.
Extracts(k, t) == calls[k] = <<"extract", t>>

\* Event k is a visit of t that is not cut: the writer lookup.
Visits(k, t) == calls[k] = <<"writers", t>>

\* A top-level call of dfs_lineage_paths starts between events i and k.
NewCallBetween(i, k) == \E m \in (i + 1)..(k - 1) : calls[m][1] = "call"

\* C20 as claimed: in one run over all its targets, the upstream union of a
\* table is extracted from the files at most once.
C20_OncePerRun ==
    \A t \in QNames : \A i, k \in 1..Len(calls) :
        (Extracts(i, t) /\ Extracts(k, t)) => i = k

\* C20, amended: within one top-level call of dfs_lineage_paths (the
\* traversal of one target) the upstream union of a table is extracted at
\* most once, at its first visit; every later visit of the table in the same
\* traversal extracts nothing and branches on the cached union. The cache
\* starts empty at every top-level call.
C20_OncePerTraversal ==
    /\ \A t \in QNames : \A i, k \in 1..Len(calls) :
          (i < k /\ Extracts(i, t) /\ Extracts(k, t)) => NewCallBetween(i, k)
    /\ \A t \in QNames : \A i, k \in 1..Len(calls) :
          (i < k /\ Visits(i, t) /\ Visits(k, t) /\ ~NewCallBetween(i, k)) =>
              ~(k < Len(calls) /\ Extracts(k + 1, t))
    /\ \A t \in QNames : \A k \in 1..Len(calls) :
          Visits(k, t) =>
              \E i \in 1..k : /\ Visits(i, t) /\ i < Len(calls) /\ Extracts(i + 1, t)
                               /\ ~NewCallBetween(i, k + 1)
    /\ \A t \in DOMAIN cache_upstreams :
          cache_upstreams[t] = UpstreamsOf(t)
    /\ (pc = "dfs" /\ Len(stack) = 1 /\ stack[1].at = "enter") =>
          cache_upstreams = EmptyMap

\* The traversal of s.d has returned after visiting s.c twice, once below s.b
\* and once directly, with one extraction of s.c; the traversal of s.b
\* before it had extracted s.c as well.
C20_Witness ==
    /\ Returned
    /\ Target = "s.d"
    /\ \E i, k \in 1..Len(calls) :
          /\ i < k
          /\ Visits(i, "s.c") /\ Visits(k, "s.c")
          /\ ~NewCallBetween(i, k)
    /\ Cardinality({k \in 1..Len(calls) : Extracts(k, "s.c")}) = 2

(***************************************************************************)
(* C21: one cache shared by several targets                                *)
(***************************************************************************)

\* C21: with one cache shared by the resolvers of several targets, whatever
\* the interleaving of their steps, every cache entry holds the union of the
\* read sets of its table's writers, an entry that is there is never given
\* another value, and the paths a resolver returns are those of its target
\* resolved alone with a fresh cache.
C21_Step ==
    pc = "shared" =>
        /\ \A k \in DOMAIN cache_upstreams :
              /\ k \in DOMAIN cache_upstreams'
              /\ cache_upstreams'[k] = cache_upstreams[k]
        /\ \A k \in DOMAIN cache_upstreams' \ DOMAIN cache_upstreams :
              cache_upstreams'[k] = UpstreamsOf(k)
        /\ \A w \in DOMAIN workers :
              (~workers[w].returned /\ workers'[w].returned) =>
                 workers'[w].paths
                    = RefPaths(files, writers_index, workers[w].target, <<>>)

C21_SharedCache == [][C21_Step]_vars

\* Both resolvers have returned, each with more than one path, after both
\* extracted the union of the same table (each found the cache without it)
\* and one of them looked up another table and took its union from the cache.
C21_Witness ==
    /\ pc = "shared"
    /\ \A w \in DOMAIN workers : workers[w].returned /\ Len(workers[w].paths) >= 2
    /\ workers[1].extracted \cap workers[2].extracted # {}
    /\ \E k \in DOMAIN cache_upstreams :
          /\ k \notin workers[1].extracted \/ k \notin workers[2].extracted
          /\ Cardinality({i \in 1..Len(calls) : calls[i] = <<"writers", k>>}) >= 2

(***************************************************************************)
(* C22: no target                                                          *)
(***************************************************************************)

\* The target list after normalisation and expansion, as a set: a qualified
\* name gives its lower-cased form, a bare name the keys of the index that end
\* with it.
ResolvedSet ==
    {t \in RawNames :
        \E i \in 1..Len(RequestedNames) :
            \/ has_dot(RequestedNames[i]) /\ t = lower(RequestedNames[i])
            \/ /\ ~has_dot(RequestedNames[i])
               /\ t \in DOMAIN writers_index
               /\ ends_with_dot(t, lower(RequestedNames[i]))}

\* C22: when the target list is empty after normalisation and expansion, the
\* run ends with a non-zero exit status, without any call of
\* dfs_lineage_paths and without writing the output; and it ends so in no
\* other case.
C22_NoTargetsAbort ==
    /\ (ResolvedSet = {} /\ pc \notin {"index", "targets"}) =>
          /\ pc = "exit"
          /\ exit_status # 0
          /\ calls = <<>> /\ stack = <<>> /\ paths = <<>>
          /\ all_rows = <<>> /\ csv = <<>>
    /\ pc = "exit" => ResolvedSet = {}
    /\ exit_status # 0 => pc = "exit"

\* The run has ended for a bare name that no key of a non-empty index ends
\* with.
C22_Witness ==
    /\ pc = "exit"
    /\ args_targets = <<"zz">>
    /\ DOMAIN writers_index # {}

(***************************************************************************)
(* C23: no source file                                                     *)
(***************************************************************************)

\* C23: when the corpus root does not exist or holds no .py or .sql file
\* (list_code_files returns the empty list in both cases), the run writes no
\* row and does not end normally, whatever targets were requested.
C23_EmptyCorpusAbort ==
    files = <<>> => /\ all_rows = <<>>
                    /\ csv = <<>>
                    /\ pc # "done"

(***************************************************************************)
(* C24: a name without schema is a node of its own                         *)
(***************************************************************************)

BareNames == {"a", "b", "c", "d"}

\* The file at path p, as the text spells it, writes exactly the name t: in a
\* header, in an insertInto, or as the name of the view it creates.
FileWrites(p, t) ==
    \E f \in Range(files) :
        /\ f.path = p
        /\ \/ \E n \in f.header_outs \cup f.insertinto : lower(n) = t
           \/ f.view_name # NoneVal /\ lower(f.view_name) = t

\* The tables read by the files that create the view t.
ReadByViewsOf(t) ==
    {lower(n) : n \in UNION {f.from_join : f \in {g \in Range(files) : FileWrites(g.path, t)}}}

\* C24: once the index is built, for a bare name b and a qualified name q with
\* table part b: the writers found for b hold no writer registered for q and
\* are all in files that write the bare name itself; the writers found for q
\* are all in files that write q itself, never only the bare name; and a
\* call of dfs_lineage_paths on b returns paths that start at b and go on, if
\* at all, with a table read by a view named b, never with an upstream of q.
C24_BareIsOwnNode ==
    pc # "index" =>
        /\ \A b \in BareNames : \A q \in QNames :
              ends_with_dot(q, b) =>
                 /\ Range(find_writers_for_table(b, files, writers_index))
                       \cap Registered(q) = {}
                 /\ \A w \in Range(find_writers_for_table(b, files, writers_index)) :
                       FileWrites(w.file_path, b)
                 /\ \A w \in Range(find_writers_for_table(q, files, writers_index)) :
                       FileWrites(w.file_path, q)
        /\ (Returned /\ args_targets[1] \in BareNames) =>
              \A j \in 1..Len(paths) :
                 /\ paths[j][1] = args_targets[1]
                 /\ Len(paths[j]) >= 2 => paths[j][2] \in ReadByViewsOf(args_targets[1])

\* The call on the bare name d has returned in a corpus where s.d has a
\* registered writer that reads tables, the bare name is found in the text of
\* that writer's file, and a view named d exists.
C24_Witness ==
    /\ Returned
    /\ args_targets = <<"d">>
    /\ \E w \in Registered("s.d") :
          /\ ReadSet(w) # {}
          /\ w.file_path \in Range(filter_candidate_files_by_name(files, "d"))
    /\ find_writers_for_table("d", files, writers_index) # <<>>

(***************************************************************************)
(* C25: what expand_rows keeps and what it adds                            *)
(***************************************************************************)

Expanded == expander_pc \in {"expanded", "expanded twice"}

\* The value of the i-th given layer column of a row, read as the code reads
\* a cell: without the blanks around it, a missing cell as the empty string.
LayerValue(row, i) == _normalise_value(Get(row, layer_columns[i]))

SourceValue(row) == _normalise_value(Get(row, "Source Table"))

InputTargets == {TargetValue(in_rows[r]) : r \in 1..Len(in_rows)}

\* Layer i of input row r is non-empty and not the target of any input row.
Promotable(r, i) ==
    /\ LayerValue(in_rows[r], i) # ""
    /\ LayerValue(in_rows[r], i) \notin InputTargets

\* The non-empty values of the layer columns from position i on, in order.
RECURSIVE LaterFrom(_, _)
LaterFrom(row, i) ==
    IF i > Len(layer_columns) THEN <<>>
    ELSE (IF LayerValue(row, i) = "" THEN <<>> ELSE <<LayerValue(row, i)>>)
         \o LaterFrom(row, i + 1)

\* new is the row that promoting layer i of row gives: the layer as target,
\* the later non-empty layers under Layer 1, Layer 2, ... and nothing in the
\* layer columns after them, and the source of row.
IsPromotionOf(new, row, i) ==
    LET later == LaterFrom(row, i + 1)
    IN  /\ TargetValue(new) = LayerValue(row, i)
        /\ \A k \in 1..Len(LayerNames) :
              _normalise_value(Get(new, LayerKey(k)))
                  = IF k <= Len(later) THEN later[k] ELSE ""
        /\ SourceValue(new) = SourceValue(row)

KeptUnchanged ==
    \A r \in 1..Len(in_rows) :
        TargetValue(in_rows[r]) # "" => \E k \in 1..Len(out_rows) : out_rows[k] = in_rows[r]

\* No output row has a target that is neither a target nor a layer value of
\* the input: a value found only in a Source Table column is never a target.
SourceOnlyNeverTarget ==
    \A k \in 1..Len(out_rows) :
        TargetValue(out_rows[k]) \in
            InputTargets \cup {LayerValue(in_rows[r], i) :
                                  r \in 1..Len(in_rows), i \in 1..Len(layer_columns)}

\* C25 as stated: expand_rows keeps every input row with a non-empty target
\* unchanged, and for EVERY input row and every non-empty layer value of it
\* that is no input row's target it adds the row with that value as target,
\* the later non-empty layers renumbered from Layer 1 and the same source; a
\* value that occurs only as a source is never made a target.
C25_EveryInputRow ==
    Expanded =>
        /\ KeptUnchanged
        /\ \A r \in 1..Len(in_rows) : \A i \in 1..Len(layer_columns) :
              Promotable(r, i) =>
                  \E k \in 1..Len(out_rows) : IsPromotionOf(out_rows[k], in_rows[r], i)
        /\ SourceOnlyNeverTarget

\* The (row, layer) pairs that are promoted: the row has a target.
Promotions ==
    {ri \in (1..Len(in_rows)) \X (1..Len(layer_columns)) :
        TargetValue(in_rows[ri[1]]) # "" /\ Promotable(ri[1], ri[2])}

\* C25, amended: the same, for every input row THAT HAS A NON-EMPTY TARGET; a
\* row without target is dropped together with its layers, so that the output
\* holds the kept rows and the promoted rows and nothing else.
C25_RowsWithTarget ==
    Expanded =>
        /\ KeptUnchanged
        /\ \A ri \in Promotions :
              \E k \in 1..Len(out_rows) : IsPromotionOf(out_rows[k], in_rows[ri[1]], ri[2])
        /\ SourceOnlyNeverTarget
        /\ \A k \in 1..Len(out_rows) :
              \/ \E r \in 1..Len(in_rows) :
                    TargetValue(in_rows[r]) # "" /\ out_rows[k] = in_rows[r]
              \/ \E ri \in Promotions : IsPromotionOf(out_rows[k], in_rows[ri[1]], ri[2])
        /\ Len(out_rows)
              = Cardinality({r \in 1..Len(in_rows) : TargetValue(in_rows[r]) # ""})
                + Cardinality(Promotions)

\* A row without target that has layers stands beside a row whose layer was
\* promoted over an empty cell: "p" moved up to Layer 1 of the new row "m".
C25_Witness ==
    /\ Expanded
    /\ \E r \in 1..Len(in_rows) :
          TargetValue(in_rows[r]) = "" /\ \E i \in 1..Len(layer_columns) : Promotable(r, i)
    /\ \E k \in 1..Len(out_rows) :
          /\ TargetValue(out_rows[k]) = "m"
          /\ Get(out_rows[k], "Layer 1") = "p"
          /\ Get(out_rows[k], "Layer 2") = NoneVal


(***************************************************************************)
(* C30: expand_rows is idempotent                                          *)
(***************************************************************************)

OutputTargets == {TargetValue(out_rows[k]) : k \in 1..Len(out_rows)}

\* The rows of one target stand together.
GroupedByTarget(rows) ==
    \A a, b, c \in 1..Len(rows) :
        a < b /\ b < c /\ TargetValue(rows[a]) = TargetValue(rows[c])
            => TargetValue(rows[b]) = TargetValue(rows[a])

\* C30: expand_rows(expand_rows(R, L), L) equals expand_rows(R, L) in content
\* and order: after one expansion every value of a layer column of L is the
\* target of a row and the rows are grouped by target, and the second call
\* raises nothing and returns the list it was given.
C30_Idempotent ==
    /\ Expanded =>
          /\ \A k \in 1..Len(out_rows) : \A i \in 1..Len(layer_columns) :
                LayerValue(out_rows[k], i) \in OutputTargets \cup {""}
          /\ GroupedByTarget(out_rows)
          /\ ~RaisesKeyError(out_rows)
    /\ expander_pc = "expanded twice" => again_rows = out_rows

\* The first expansion added rows and reordered the input, and the second
\* expansion has run.
C30_Witness ==
    /\ expander_pc = "expanded twice"
    /\ Len(out_rows) > Len(in_rows)
    /\ ~GroupedByTarget(in_rows)
    /\ again_rows = out_rows


(***************************************************************************)
(* C26: what expand_lineage_rows returns                                   *)
(***************************************************************************)

Promoted == expander_pc = "promoted"

\* The positions of the rows added behind the input rows.
PromotedRows == (Len(in_rows) + 1)..Len(out_rows)

InputPrefix ==
    /\ Len(out_rows) >= Len(in_rows)
    /\ \A r \in 1..Len(in_rows) : out_rows[r] = in_rows[r]

\* Compared without regard to case, the target of a promoted row is the
\* target of no input row and of no other promoted row.
PromotedTargetsNew ==
    \A k \in PromotedRows :
        /\ lower(TargetValue(out_rows[k])) \notin {lower(t) : t \in InputTargets}
        /\ \A j \in PromotedRows :
              j # k => lower(TargetValue(out_rows[j])) # lower(TargetValue(out_rows[k]))

\* new is layer i of row as target, then the layers that stand directly
\* behind it up to the first empty cell, then the source of row.
IsContiguousPromotionOf(new, row, i) ==
    LET chain == downstream_chain(row, i + 1, layer_columns)
    IN  /\ TargetValue(new) = LayerValue(row, i)
        /\ \A k \in 1..Len(LayerNames) :
              _normalise_value(Get(new, LayerKey(k)))
                  = IF k <= Len(chain) THEN chain[k] ELSE ""
        /\ SourceValue(new) = SourceValue(row)

\* C26: expand_lineage_rows returns the input rows unchanged and in order as
\* a prefix, then the promoted rows; a promoted row's target is, without
\* regard to case, no input row's and no other promoted row's target; and each
\* promoted row carries the layers that followed the promoted value in the row
\* it comes from, renumbered from Layer 1, and that row's source.
C26_PromotedChain ==
    Promoted =>
        /\ InputPrefix
        /\ PromotedTargetsNew
        /\ \A k \in PromotedRows :
              \E r \in 1..Len(in_rows) : \E i \in 1..Len(layer_columns) :
                  /\ TargetValue(in_rows[r]) # ""
                  /\ IsPromotionOf(out_rows[k], in_rows[r], i)

\* What holds instead: the promoted row carries the following layers only up
\* to the first empty cell of the row it comes from.
C26_ChainToFirstGap ==
    Promoted =>
        /\ InputPrefix
        /\ PromotedTargetsNew
        /\ \A k \in PromotedRows :
              \E r \in 1..Len(in_rows) : \E i \in 1..Len(layer_columns) :
                  /\ TargetValue(in_rows[r]) # ""
                  /\ IsContiguousPromotionOf(out_rows[k], in_rows[r], i)


(***************************************************************************)
(* C27: macro assignments are evaluated sequentially and per block         *)
(***************************************************************************)

\* The positions of the blocks of the file, in textual order.
BlockPositions ==
    SelectSeq([i \in 1..Len(sas_text) |-> i], LAMBDA i : IsBlock(sas_text[i]))

\* The statements of the file up to the end of item b in textual order, the
\* bodies of the blocks included.
RECURSIVE TextUpTo(_)
TextUpTo(b) ==
    IF b = 0 THEN <<>>
    ELSE TextUpTo(b - 1)
         \o (IF IsBlock(sas_text[b]) THEN sas_text[b].body ELSE <<sas_text[b]>>)

\* The macro environment that the %let statements before the end of item b
\* give when they are evaluated one after the other, a later assignment of a
\* name overriding an earlier one.
EnvAtEndOf(b) == EvalAssignments(TextUpTo(b), <<>>, <<>>)

\* The tables of block b when its statements and the _output hint are
\* resolved with the given environment.
TablesUnder(b, macros) ==
    [read |-> Collected(sas_text[b].body, "from", macros),
     written |-> Collected(sas_text[b].body, "create table", macros)
                   \cup OutputHints(macros)]

\* C27: the tables read and written by a block are resolved with exactly the
\* %let assignments that occur textually before the end of that block, a
\* later one overriding an earlier one; this holds in every later state of the
\* analysis as well, so an assignment behind a block never changes the tables
\* attributed to that block.
C27_BlockScoped ==
    /\ Len(block_tables) <= Len(BlockPositions)
    /\ \A k \in 1..Len(block_tables) :
          block_tables[k] = TablesUnder(BlockPositions[k], EnvAtEndOf(BlockPositions[k]))
    /\ sas_pc = "done" => Len(block_tables) = Len(BlockPositions)

\* A block that writes &t stands between %let t=lib.a and %let t=lib.b and
\* keeps lib.a; the block behind it refers to &T before it assigns t itself.
C27_Witness ==
    /\ sas_pc = "done"
    /\ sas_text = <<Let("t", "lib.a"), ItemShapes[6], Let("T", "'LIB.C'"), ItemShapes[7]>>
    /\ block_tables[1].written = {"lib.a"}
    /\ block_tables[2].written = {"lib.b"}


(***************************************************************************)
(* C28: the shape of a returned path                                       *)
(***************************************************************************)

\* The tables reachable from t along edges of the writer graph, t included.
ReachableFrom(t) == {t} \cup Closure(Graph, UpstreamsOf(t), Cardinality(QNames))

AllButLast(p) == SubSeq(p, 1, Len(p) - 1)

\* The last table of the path stands earlier in it as well.
LastRepeats(p) == p[Len(p)] \in Range(AllButLast(p))

\* The last tables of the paths whose last table repeats, in order.
RepeatedLasts(ps) ==
    LET cut == SelectSeq(ps, LastRepeats)
    IN  [j \in 1..Len(cut) |-> cut[j][Len(cut[j])]]

\* C28: when a call of dfs_lineage_paths has returned, the list is not empty
\* and every path starts at the lower-cased start name, has pairwise distinct
\* tables up to the last but one, and has at most as many tables as are
\* reachable from the start (itself included) plus one; the paths whose last
\* table repeats an earlier one are, one for one and in order, the branches
\* that the cycle guard has cut.
C28_PathShape ==
    Returned =>
        /\ paths # <<>>
        /\ \A j \in 1..Len(paths) :
              /\ paths[j] # <<>>
              /\ paths[j][1] = lower(args_targets[1])
              /\ NoDuplicates(AllButLast(paths[j]))
              /\ Len(paths[j]) <= Cardinality(ReachableFrom(lower(args_targets[1]))) + 1
        /\ RepeatedLasts(paths) = warnings

\* A call with an upper-case start name has returned a path whose last table
\* repeats and, behind it, a path without repetition.
C28_Witness ==
    /\ Returned
    /\ ~IsLower(args_targets[1])
    /\ \E i, j \in 1..Len(paths) :
          i < j /\ LastRepeats(paths[i]) /\ Len(paths[i]) >= 3 /\ ~LastRepeats(paths[j])


(***************************************************************************)
(* C29: on an acyclic graph the path sets are suffix-closed                *)
(***************************************************************************)

\* p[i:] in Python, for the 1-based position i + 1
Suffix(p, i) == SubSeq(p, i + 1, Len(p))

\* The paths a direct call of dfs_lineage_paths on t returns.
TracedDirectly(t) == Range(RefPaths(files, writers_index, t, <<>>))

\* The rows have the same cells in the target, layer and source columns.
SameCells(a, b) ==
    \A c \in {"Target Table", "Source Table"} \cup Range(LayerNames) :
        _normalise_value(Get(a, c)) = _normalise_value(Get(b, c))

\* The positions of the rows that the expander has created.
CreatedRows ==
    IF expander_pc = "promoted" THEN (Len(in_rows) + 1)..Len(out_rows)
    ELSE {k \in 1..Len(out_rows) : out_rows[k] \notin Range(in_rows)}

\* C29: on an acyclic writer graph, every suffix p[i:], i >= 1, of a path
\* returned for a target is one of the paths a direct call on p[i] returns;
\* and every row that expand_rows or expand_lineage_rows creates from the
\* written rows by promoting a layer is a row that tracing that layer
\* directly gives.
C29_SuffixClosed ==
    /\ (Returned /\ Acyclic) =>
          \A j \in 1..Len(paths) : \A i \in 1..(Len(paths[j]) - 1) :
              Suffix(paths[j], i) \in TracedDirectly(paths[j][i + 1])
    /\ (expander_pc \in {"expanded", "promoted"} /\ Acyclic) =>
          \A k \in CreatedRows :
              \E q \in TracedDirectly(TargetValue(out_rows[k])) :
                  SameCells(out_rows[k], ShapeRow(TargetValue(out_rows[k]), q))

\* On an acyclic corpus the row s.d, s.b, s.c, s.a was written and
\* expand_rows has created the row s.b, s.c, s.a from it.
C29_Witness ==
    /\ Acyclic
    /\ expander_pc = "expanded"
    /\ \E k \in CreatedRows :
          /\ TargetValue(out_rows[k]) = "s.b"
          /\ Get(out_rows[k], "Layer 1") = "s.c"
          /\ Get(out_rows[k], "Source Table") = "s.a"

====
